---- MODULE Spec2Model ----
(***************************************************************************)
(* Model of the generic value codec of elastic-agent-shipper-client:       *)
(*   - messages.Value, the tagged union (struct.proto);                    *)
(*   - Value/Struct/ListValue.MarshalFastJSON, the streaming serializer;   *)
(*   - Value/Struct/ListValue.MarshalJSON, the tree serializer;            *)
(*   - helpers.NewValue / helpers.AsInterface, the converters.             *)
(* Text is modelled as a sequence of one-character strings, so that        *)
(* escaping, delimiters and number formatting are computed, not assumed.   *)
(***************************************************************************)
EXTENDS Integers, Sequences, FiniteSets, TLC

VARIABLES
    in,      \* the native Go value handed to NewValue (go = "none": no input)
    val,     \* the messages.Value tree under work
    st,      \* "input": not yet converted, "value": val is set, "failed": NewValue returned an error
    w,       \* the bytes of the caller's fastjson.Writer
    wmark,   \* Len(w) before the last MarshalFastJSON call
    ferr,    \* result of the last MarshalFastJSON call: "none" (not called), "ok", "err"
    jout,    \* the bytes returned by the last Value.MarshalJSON call
    jerr,    \* its result: "none", "ok", "err"
    native,  \* the result of AsInterface(val)
    nst,     \* "none" or "done"
    std,     \* the bytes of json.Marshal applied to the native input
    sst,     \* "none", "ok", "err"
    thr,     \* the goroutines inside a MarshalFastJSON call: root, call stack, result
    bufs     \* the bytes of the fastjson.Writer of each goroutine

vars == <<in, val, st, w, wmark, ferr, jout, jerr, native, nst, std, sst, thr, bufs>>

-----------------------------------------------------------------------------
(* Bounds of the model.                                                    *)

\* Nesting depth of the generated trees (0 = scalars only).
MaxDepth == 2
\* Largest number of members of a generated Struct / elements of a List.
MaxWidth == 2

-----------------------------------------------------------------------------
(* Characters and text.                                                    *)

QUOTE  == "\""
BSLASH == "\\"
CTRL   == "\n"

Digits == <<"0", "1", "2", "3", "4", "5", "6", "7", "8", "9">>

IsDigit(c) == \E d \in 1..10 : Digits[d] = c

DigitOf(c) == (CHOOSE d \in 1..10 : Digits[d] = c) - 1

RECURSIVE AppendUint(_)
\* strconv.AppendUint(buf, n, 10): the decimal digits of n >= 0.
AppendUint(n) ==
    IF n < 10 THEN <<Digits[n + 1]>>
    ELSE AppendUint(n \div 10) \o <<Digits[(n % 10) + 1]>>

\* strconv.AppendInt(buf, n, 10): a minus sign, then the digits of |n|.
AppendInt(n) == IF n < 0 THEN <<"-">> \o AppendUint(-n) ELSE AppendUint(n)

RECURSIVE Zeros(_)
Zeros(k) == IF k = 0 THEN <<>> ELSE <<"0">> \o Zeros(k - 1)

\* The digits of n >= 0, left-padded with zeros to `width` characters.
ZeroPad(n, width) ==
    LET d == AppendUint(n)
    IN  IF Len(d) >= width THEN d ELSE Zeros(width - Len(d)) \o d

\* A 64-bit number beyond the range of the checker's integers is held as its
\* sign and its magnitude in limbs of nine decimal digits, the most
\* significant first and not zero; a record holds such a number in the
\* fields `neg` and `limbs` instead of `n`.
IsWide(r) == "limbs" \in DOMAIN r

RECURSIVE AppendLimbs(_)
\* The lower limbs, nine digits each.
AppendLimbs(limbs) ==
    IF limbs = <<>> THEN <<>> ELSE ZeroPad(Head(limbs), 9) \o AppendLimbs(Tail(limbs))

\* strconv.AppendUint(buf, n, 10) of a number held in limbs.
AppendUintWide(limbs) == AppendUint(Head(limbs)) \o AppendLimbs(Tail(limbs))

\* strconv.AppendInt(buf, n, 10) of a number held in limbs.
AppendIntWide(neg, limbs) == (IF neg THEN <<"-">> ELSE <<>>) \o AppendUintWide(limbs)

\* fastjson Writer.Int64 and Writer.Uint64 of the number a record holds.
WriterInt64(r)  == IF IsWide(r) THEN AppendIntWide(r.neg, r.limbs) ELSE AppendInt(r.n)
WriterUint64(r) == IF IsWide(r) THEN AppendUintWide(r.limbs) ELSE AppendUint(r.n)

\* A 32-bit or 64-bit word is held as its 16-bit halves, the most
\* significant first.  Bits32(r): the word of the int32 or uint32 that the
\* record r holds.
Bits32(r) ==
    IF IsWide(r) THEN
        LET t == r.limbs[1] * 51712 + r.limbs[2]
        IN  <<r.limbs[1] * 15258 + (t \div 65536), t % 65536>>
    ELSE IF r.n >= 0 THEN <<r.n \div 65536, r.n % 65536>>
    ELSE LET m == -(r.n + 1)
         IN  <<65535 - (m \div 65536), 65535 - (m % 65536)>>

\* The conversions int64(x) of an int32 and uint64(x) of a uint32.
SignExtend32(h) == IF h[1] >= 32768 THEN <<65535, 65535>> \o h ELSE <<0, 0>> \o h
ZeroExtend32(h) == <<0, 0>> \o h

RECURSIVE MulAdd(_, _, _)
\* d * mul + add, for d in digits of base 1000, the least significant first.
MulAdd(d, mul, add) ==
    IF d = <<>> THEN (IF add = 0 THEN <<>> ELSE <<add % 1000>> \o MulAdd(<<>>, mul, add \div 1000))
    ELSE LET t == Head(d) * mul + add
         IN  <<t % 1000>> \o MulAdd(Tail(d), mul, t \div 1000)

RECURSIVE Magnitude(_, _)
\* The unsigned number of the halves h, on top of the digits acc.
Magnitude(h, acc) ==
    IF h = <<>> THEN acc ELSE Magnitude(Tail(h), MulAdd(acc, 65536, Head(h)))

RECURSIVE LimbsOf(_)
\* Base-1000 digits, least significant first, as limbs of nine decimal
\* digits, most significant first.
LimbsOf(d) ==
    IF d = <<>> THEN <<>>
    ELSE LET at(i) == IF i <= Len(d) THEN d[i] ELSE 0
             limb  == at(1) + 1000 * at(2) + 1000000 * at(3)
             rest  == IF Len(d) > 3 THEN LimbsOf(SubSeq(d, 4, Len(d))) ELSE <<>>
         IN  rest \o <<limb>>

\* The record of the number with the given sign and base-1000 digits: the
\* field n when the checker's integers hold it, limbs otherwise.
NumberOf(neg, d) ==
    LET limbs == LimbsOf(d)
    IN  IF limbs = <<>> THEN [n |-> 0]
        ELSE IF Len(limbs) = 1 THEN [n |-> IF neg THEN -limbs[1] ELSE limbs[1]]
        ELSE IF Len(limbs) = 2 /\ limbs[1] < 2
             THEN [n |-> IF neg THEN -(limbs[1] * 1000000000 + limbs[2])
                         ELSE limbs[1] * 1000000000 + limbs[2]]
        ELSE [neg |-> neg, limbs |-> limbs]

\* The int64 and the uint64 that a 64-bit word holds (two's complement).
Int64OfBits(h) ==
    IF h[1] >= 32768
    THEN NumberOf(TRUE, MulAdd(Magnitude([i \in 1..4 |-> 65535 - h[i]], <<>>), 1, 1))
    ELSE NumberOf(FALSE, Magnitude(h, <<>>))
Uint64OfBits(h) == NumberOf(FALSE, Magnitude(h, <<>>))

\* int64(typ.Int32Value) with the sign bit not carried into the upper half.
Int64OfInt32ZeroExtended(r) == Int64OfBits(ZeroExtend32(Bits32(r)))

\* int64(typ.Int32Value) and uint64(typ.Uint32Value)
Int64OfInt32(r)   == Int64OfBits(SignExtend32(Bits32(r)))
Uint64OfUint32(r) == Uint64OfBits(ZeroExtend32(Bits32(r)))

RECURSIVE StripZeros(_)
\* A digit string without its trailing zeros.
StripZeros(d) ==
    IF d # <<>> /\ d[Len(d)] = "0" THEN StripZeros(SubSeq(d, 1, Len(d) - 1)) ELSE d

RECURSIVE Pow10(_)
Pow10(k) == IF k = 0 THEN 1 ELSE 10 * Pow10(k - 1)

Abs(n) == IF n < 0 THEN -n ELSE n

\* A float is held as the decimal m / 10^e of its shortest representation
\* (m % 10 # 0 or e = 0), within the range both encoders print without an
\* exponent.  strconv.AppendFloat(buf, f, 'f', -1, bits).
AppendFloat(f) ==
    LET a  == Abs(f.m)
        ip == a \div Pow10(f.e)
        fp == a % Pow10(f.e)
    IN  (IF f.m < 0 THEN <<"-">> ELSE <<>>)
        \o AppendUint(ip)
        \o (IF f.e = 0 THEN <<>> ELSE <<".">> \o ZeroPad(fp, f.e))

-----------------------------------------------------------------------------
(* timestamppb.Timestamp.AsTime() and time.Time.AppendFormat.              *)

\* The civil date (UTC) of a day count since 1970-01-01.
CivilFromDays(days) ==
    LET z   == days + 719468
        era == z \div 146097
        doe == z - era * 146097
        yoe == (doe - doe \div 1460 + doe \div 36524 - doe \div 146096) \div 365
        doy == doe - (365 * yoe + yoe \div 4 - yoe \div 100)
        mp  == (5 * doy + 2) \div 153
        d   == doy - (153 * mp + 2) \div 5 + 1
        m   == IF mp < 10 THEN mp + 3 ELSE mp - 9
        y   == yoe + era * 400 + (IF m <= 2 THEN 1 ELSE 0)
    IN  [year |-> y, month |-> m, day |-> d]

\* t.AppendFormat(buf, time.RFC3339): "2006-01-02T15:04:05Z07:00" of a UTC time.
FormatRFC3339(seconds) ==
    LET c   == CivilFromDays(seconds \div 86400)
        sod == seconds % 86400
    IN  ZeroPad(c.year, 4) \o <<"-">> \o ZeroPad(c.month, 2) \o <<"-">> \o ZeroPad(c.day, 2)
        \o <<"T">> \o ZeroPad(sod \div 3600, 2) \o <<":">> \o ZeroPad((sod % 3600) \div 60, 2)
        \o <<":">> \o ZeroPad(sod % 60, 2)

\* The fraction written with all its nine digits, also for nanos = 0.
FormatFractionPadded(nanos) == <<".">> \o ZeroPad(nanos, 9)

\* The ".999999999" part of the layout: nothing for nanos = 0, else the nine
\* digits of nanos with trailing zeros removed.
FormatFraction(nanos) ==
    IF nanos = 0 THEN <<>> ELSE <<".">> \o StripZeros(ZeroPad(nanos, 9))

\* t.AppendFormat(buf, time.RFC3339Nano) of Timestamp.AsTime(), which is UTC.
FormatRFC3339Nano(ts) ==
    FormatRFC3339(ts.seconds) \o FormatFraction(ts.nanos) \o <<"Z">>

-----------------------------------------------------------------------------
(* JSON string escaping, as done by fastjson Writer.String and by          *)
(* encoding/json for strings and map keys.                                 *)

EscapeChar(c) ==
    IF c = QUOTE THEN <<BSLASH, QUOTE>>
    ELSE IF c = BSLASH THEN <<BSLASH, BSLASH>>
    ELSE IF c = CTRL THEN <<BSLASH, "n">>
    ELSE <<c>>

RECURSIVE StringContents(_)
StringContents(s) ==
    IF s = <<>> THEN <<>> ELSE EscapeChar(Head(s)) \o StringContents(Tail(s))

\* w.String(s): the quoted, escaped JSON string.
WriteString(s) == <<QUOTE>> \o StringContents(s) \o <<QUOTE>>

\* w.RawString(s): the text as it is.
RawString(s) == s

\* w.Bool(b)
WriteBool(b) == IF b THEN <<"t", "r", "u", "e">> ELSE <<"f", "a", "l", "s", "e">>

NullText == <<"n", "u", "l", "l">>

-----------------------------------------------------------------------------
(* messages.Value: the tagged union.  `kind` names the oneof field that is *)
(* set; "unset" is a Value whose Kind is nil.                              *)

NullValue            == [kind |-> "null_value"]
NewBoolValue(b)      == [kind |-> "bool_value", b |-> b]
NewInt32Value(n)     == [kind |-> "int32_value", n |-> n]
NewInt64Value(n)     == [kind |-> "int64_value", n |-> n]
NewUint32Value(n)    == [kind |-> "uint32_value", n |-> n]
NewUint64Value(n)    == [kind |-> "uint64_value", n |-> n]
NewFloat32Value(f)   == [kind |-> "float32_value", f |-> f]
NewFloat64Value(f)   == [kind |-> "float64_value", f |-> f]
NewStringValue(s)    == [kind |-> "string_value", s |-> s]
\* The constructor with the nanoseconds cut off.
NewTimestampValueSeconds(t) == [kind |-> "timestamp_value", seconds |-> t.seconds, nanos |-> 0]
NewTimestampValue(t) == [kind |-> "timestamp_value", seconds |-> t.seconds, nanos |-> t.nanos]
\* Struct{Data: data}; isnil: the Data map is nil.
NewStructValue(data) == [kind |-> "struct_value", isnil |-> FALSE, data |-> data]
NilStructValue       == [kind |-> "struct_value", isnil |-> TRUE, data |-> <<>>]
\* ListValue{Values: values}; isnil: the Values slice is nil.
NewListValue(values) == [kind |-> "list_value", isnil |-> FALSE, values |-> values]
NilListValue         == [kind |-> "list_value", isnil |-> TRUE, values |-> <<>>]
\* The legacy collapsed-to-double variant the tree serializer still names.
NewNumberValue(f)    == [kind |-> "number_value", f |-> f]
UnsetValue           == [kind |-> "unset"]

\* A result of a serializer: the bytes written and whether an error is returned.
Result(out, err) == [out |-> out, err |-> err]

\* The members of `order` that are keys of `data`, in that order.
KeysInOrder(data, order) == SelectSeq(order, LAMBDA k : k \in DOMAIN data)

-----------------------------------------------------------------------------
(* The streaming serializer.  `order` is the order in which Go's `range`   *)
(* visits the keys of a map during the call.                               *)

RECURSIVE ValueMarshalFastJSON(_, _), StructLoopFastJSON(_, _, _, _, _), ListLoopFastJSON(_, _, _, _)

RECURSIVE StructLoopCommaFirst(_, _, _, _, _)
\* The loop with a comma written before every member, the first included.
StructLoopCommaFirst(data, keys, i, out, order) ==
    IF i > Len(keys) THEN Result(out \o <<"}">>, FALSE)
    ELSE LET key == keys[i]
             r   == ValueMarshalFastJSON(data[key], order)
             o   == out \o <<",">> \o RawString(<<QUOTE>>) \o RawString(key)
                        \o RawString(<<QUOTE, ":">>) \o r.out
         IN  IF r.err THEN Result(o, TRUE)
             ELSE StructLoopCommaFirst(data, keys, i + 1, o, order)

\* The body of `for key, val := range sv.GetData()`, from the i-th key on,
\* with `out` written so far.
StructLoopFastJSON(data, keys, i, out, order) ==
    IF i > Len(keys) THEN Result(out \o <<"}">>, FALSE)
    ELSE LET key == keys[i]
             sep == IF i > 1 THEN <<",">> ELSE <<>>
             r   == ValueMarshalFastJSON(data[key], order)
             o   == out \o sep \o RawString(<<QUOTE>>) \o RawString(key)
                        \o RawString(<<QUOTE, ":">>) \o r.out
         IN  IF r.err THEN Result(o, TRUE)
             ELSE StructLoopFastJSON(data, keys, i + 1, o, order)

\* func (sv *Struct) MarshalFastJSON(w *fastjson.Writer) error
StructMarshalFastJSON(sv, order) ==
    IF sv.isnil THEN Result(<<>>, FALSE)
    ELSE StructLoopFastJSON(sv.data, KeysInOrder(sv.data, order), 1, <<"{">>, order)

RECURSIVE ListLoopReversed(_, _, _, _)
\* The loop with the elements visited from the last to the first.
ListLoopReversed(values, i, out, order) ==
    IF i > Len(values) THEN Result(out \o <<"]">>, FALSE)
    ELSE LET sep == IF i > 1 THEN <<",">> ELSE <<>>
             r   == ValueMarshalFastJSON(values[Len(values) + 1 - i], order)
         IN  ListLoopReversed(values, i + 1, out \o sep \o r.out, order)

\* The body of `for iter, val := range lv.GetValues()`; the error of
\* val.MarshalFastJSON(w) is dropped.
ListLoopFastJSON(values, i, out, order) ==
    IF i > Len(values) THEN Result(out \o <<"]">>, FALSE)
    ELSE LET sep == IF i > 1 THEN <<",">> ELSE <<>>
             r   == ValueMarshalFastJSON(values[i], order)
         IN  ListLoopFastJSON(values, i + 1, out \o sep \o r.out, order)

\* func (lv *ListValue) MarshalFastJSON(w *fastjson.Writer) error
ListMarshalFastJSON(lv, order) ==
    IF lv.isnil THEN Result(<<>>, FALSE)
    ELSE ListLoopFastJSON(lv.values, 1, <<"[">>, order)

\* func (val *Value) MarshalFastJSON(w *fastjson.Writer) error
ValueMarshalFastJSON(v, order) ==
    CASE v.kind = "null_value"      -> Result(RawString(NullText), FALSE)
      [] v.kind = "float32_value"   -> Result(AppendFloat(v.f), FALSE)
      [] v.kind = "float64_value"   -> Result(AppendFloat(v.f), FALSE)
      [] v.kind = "int32_value"     -> Result(WriterInt64(Int64OfInt32(v)), FALSE)
      [] v.kind = "int64_value"     -> Result(WriterInt64(v), FALSE)
      [] v.kind = "uint32_value"    -> Result(WriterUint64(Uint64OfUint32(v)), FALSE)
      [] v.kind = "uint64_value"    -> Result(WriterUint64(v), FALSE)
      [] v.kind = "string_value"    -> Result(WriteString(v.s), FALSE)
      [] v.kind = "bool_value"      -> Result(WriteBool(v.b), FALSE)
      [] v.kind = "struct_value"    -> StructMarshalFastJSON(v, order)
      [] v.kind = "list_value"      -> ListMarshalFastJSON(v, order)
      [] v.kind = "timestamp_value" ->
            Result(<<QUOTE>> \o FormatRFC3339Nano(v) \o <<QUOTE>>, FALSE)
      [] OTHER                      -> Result(<<>>, TRUE)

-----------------------------------------------------------------------------
(* The tree serializer.  encoding/json writes the keys of a map in sorted  *)
(* order and returns no bytes when a MarshalJSON below it fails.           *)

RECURSIVE ValueMarshalJSON(_), MapMarshalJSON(_, _, _, _), SliceMarshalJSON(_, _, _)

\* json.Marshal(map[string]*Value), from the i-th key on.
MapMarshalJSON(data, keys, i, out) ==
    IF i > Len(keys) THEN Result(out \o <<"}">>, FALSE)
    ELSE LET key == keys[i]
             sep == IF i > 1 THEN <<",">> ELSE <<>>
             r   == ValueMarshalJSON(data[key])
         IN  IF r.err THEN Result(<<>>, TRUE)
             ELSE MapMarshalJSON(data, keys, i + 1,
                                 out \o sep \o WriteString(key) \o <<":">> \o r.out)

\* json.Marshal([]*Value), from the i-th element on.
SliceMarshalJSON(values, i, out) ==
    IF i > Len(values) THEN Result(out \o <<"]">>, FALSE)
    ELSE LET sep == IF i > 1 THEN <<",">> ELSE <<>>
             r   == ValueMarshalJSON(values[i])
         IN  IF r.err THEN Result(<<>>, TRUE)
             ELSE SliceMarshalJSON(values, i + 1, out \o sep \o r.out)

\* The characters of the model in byte order, for the key sort of encoding/json.
ByteOrder == <<CTRL, QUOTE, "A", "B", BSLASH, "a", "b">>

ByteRank(c) == CHOOSE r \in 1..Len(ByteOrder) : ByteOrder[r] = c

RECURSIVE TextLess(_, _)
\* s < t as Go strings.
TextLess(s, t) ==
    IF t = <<>> THEN FALSE
    ELSE IF s = <<>> THEN TRUE
    ELSE IF Head(s) # Head(t) THEN ByteRank(Head(s)) < ByteRank(Head(t))
    ELSE TextLess(Tail(s), Tail(t))

RECURSIVE SortKeys(_)
\* The keys of a map as encoding/json orders them.
SortKeys(S) ==
    IF S = {} THEN <<>>
    ELSE LET m == CHOOSE k \in S : \A o \in S : o = k \/ TextLess(k, o)
         IN  <<m>> \o SortKeys(S \ {m})

\* func (sv *Struct) MarshalJSON() ([]byte, error): json.Marshal(sv.GetData())
StructMarshalJSON(sv) ==
    IF sv.isnil THEN Result(NullText, FALSE)
    ELSE MapMarshalJSON(sv.data, SortKeys(DOMAIN sv.data), 1, <<"{">>)

\* func (lv *ListValue) MarshalJSON() ([]byte, error): json.Marshal(lv.GetValues())
ListMarshalJSON(lv) ==
    IF lv.isnil THEN Result(NullText, FALSE)
    ELSE SliceMarshalJSON(lv.values, 1, <<"[">>)

\* time.Time.MarshalJSON of Timestamp.AsTime(): the quoted RFC3339Nano text,
\* an error for a year outside [0, 9999].
TimeMarshalJSON(ts) ==
    LET year == CivilFromDays(ts.seconds \div 86400).year
    IN  IF year < 0 \/ year >= 10000 THEN Result(<<>>, TRUE)
        ELSE Result(<<QUOTE>> \o FormatRFC3339Nano(ts) \o <<QUOTE>>, FALSE)

\* The "Z07:00" part of the layout.
FormatZone(offset) ==
    IF offset = 0 THEN <<"Z">>
    ELSE (IF offset < 0 THEN <<"-">> ELSE <<"+">>)
         \o ZeroPad(Abs(offset) \div 3600, 2) \o <<":">> \o ZeroPad((Abs(offset) % 3600) \div 60, 2)

\* time.Time.MarshalJSON of a native time: its wall clock in its own location.
NativeTimeMarshalJSON(x) ==
    LET year == CivilFromDays((x.seconds + x.offset) \div 86400).year
    IN  IF year < 0 \/ year >= 10000 THEN Result(<<>>, TRUE)
        ELSE Result(<<QUOTE>> \o FormatRFC3339(x.seconds + x.offset) \o FormatFraction(x.nanos)
                        \o FormatZone(x.offset) \o <<QUOTE>>, FALSE)

\* func (val *Value) MarshalJSON() ([]byte, error)
ValueMarshalJSON(v) ==
    CASE v.kind = "null_value"      -> Result(NullText, FALSE)
      [] v.kind = "number_value"    -> Result(AppendFloat(v.f), FALSE)
      [] v.kind = "string_value"    -> Result(WriteString(v.s), FALSE)
      [] v.kind = "bool_value"      -> Result(WriteBool(v.b), FALSE)
      [] v.kind = "struct_value"    -> StructMarshalJSON(v)
      [] v.kind = "list_value"      -> ListMarshalJSON(v)
      [] v.kind = "timestamp_value" -> TimeMarshalJSON(v)
      [] OTHER                      -> Result(<<>>, TRUE)

-----------------------------------------------------------------------------
(* json.Unmarshal into a generic value (interface{} / mapstr.M), for the   *)
(* compact documents the serializers write (no white space, no exponent).  *)

JNull      == [t |-> "null"]
JBool(b)   == [t |-> "bool", b |-> b]
JNum(m, e) == [t |-> "number", m |-> m, e |-> e]
JStr(s)    == [t |-> "string", s |-> s]
JObj(mem)  == [t |-> "object", mem |-> mem]
JArr(el)   == [t |-> "array", el |-> el]

ParseFail == [ok |-> FALSE, v |-> JNull, i |-> 0]
ParseOk(v, i) == [ok |-> TRUE, v |-> v, i |-> i]

\* s[i..] starts with the text lit.
StartsWith(s, i, lit) ==
    /\ i + Len(lit) - 1 <= Len(s)
    /\ SubSeq(s, i, i + Len(lit) - 1) = lit

RECURSIVE ParseStringBody(_, _, _)
\* The characters of a string literal after its opening quote.
ParseStringBody(s, i, acc) ==
    IF i > Len(s) THEN ParseFail
    ELSE IF s[i] = QUOTE THEN ParseOk(acc, i + 1)
    ELSE IF s[i] = CTRL THEN ParseFail
    ELSE IF s[i] = BSLASH THEN
        IF i + 1 > Len(s) THEN ParseFail
        ELSE IF s[i + 1] = QUOTE THEN ParseStringBody(s, i + 2, Append(acc, QUOTE))
        ELSE IF s[i + 1] = BSLASH THEN ParseStringBody(s, i + 2, Append(acc, BSLASH))
        ELSE IF s[i + 1] = "n" THEN ParseStringBody(s, i + 2, Append(acc, CTRL))
        ELSE ParseFail
    ELSE ParseStringBody(s, i + 1, Append(acc, s[i]))

RECURSIVE ScanDigits(_, _, _, _)
\* The run of digits from s[i]: its value, its length and the next index.
ScanDigits(s, i, n, cnt) ==
    IF i <= Len(s) /\ IsDigit(s[i])
    THEN ScanDigits(s, i + 1, 10 * n + DigitOf(s[i]), cnt + 1)
    ELSE [n |-> n, cnt |-> cnt, i |-> i]

RECURSIVE Normalize(_, _)
\* m / 10^e without trailing zeros in the fraction.
Normalize(m, e) == IF e > 0 /\ m % 10 = 0 THEN Normalize(m \div 10, e - 1) ELSE JNum(m, e)

\* A JSON number at s[i].
ParseNumber(s, i) ==
    LET neg  == s[i] = "-"
        j    == IF neg THEN i + 1 ELSE i
        ip   == IF j <= Len(s) /\ s[j] = "0"
                THEN [n |-> 0, cnt |-> 1, i |-> j + 1]
                ELSE ScanDigits(s, j, 0, 0)
        dot  == ip.i <= Len(s) /\ s[ip.i] = "."
        fp   == IF dot THEN ScanDigits(s, ip.i + 1, 0, 0) ELSE [n |-> 0, cnt |-> 0, i |-> ip.i]
        mag  == ip.n * Pow10(fp.cnt) + fp.n
    IN  IF ip.cnt = 0 \/ (dot /\ fp.cnt = 0) THEN ParseFail
        ELSE ParseOk(Normalize(IF neg THEN -mag ELSE mag, fp.cnt), fp.i)

RECURSIVE ParseValue(_, _), ParseMembers(_, _, _), ParseElems(_, _, _)

\* The members of an object from s[i] on (after "{" or ","); a repeated key
\* keeps the last value.
ParseMembers(s, i, acc) ==
    IF i > Len(s) \/ s[i] # QUOTE THEN ParseFail
    ELSE LET k == ParseStringBody(s, i + 1, <<>>)
         IN  IF ~k.ok \/ k.i > Len(s) \/ s[k.i] # ":" THEN ParseFail
             ELSE LET r == ParseValue(s, k.i + 1)
                      m == [x \in (DOMAIN acc) \cup {k.v} |-> IF x = k.v THEN r.v ELSE acc[x]]
                  IN  IF ~r.ok \/ r.i > Len(s) THEN ParseFail
                      ELSE IF s[r.i] = "}" THEN ParseOk(JObj(m), r.i + 1)
                      ELSE IF s[r.i] = "," THEN ParseMembers(s, r.i + 1, m)
                      ELSE ParseFail

\* The elements of an array from s[i] on (after "[" or ",").
ParseElems(s, i, acc) ==
    LET r == ParseValue(s, i)
    IN  IF ~r.ok \/ r.i > Len(s) THEN ParseFail
        ELSE IF s[r.i] = "]" THEN ParseOk(JArr(Append(acc, r.v)), r.i + 1)
        ELSE IF s[r.i] = "," THEN ParseElems(s, r.i + 1, Append(acc, r.v))
        ELSE ParseFail

\* One JSON value at s[i].
ParseValue(s, i) ==
    IF i > Len(s) THEN ParseFail
    ELSE CASE StartsWith(s, i, NullText)          -> ParseOk(JNull, i + 4)
           [] StartsWith(s, i, WriteBool(TRUE))   -> ParseOk(JBool(TRUE), i + 4)
           [] StartsWith(s, i, WriteBool(FALSE))  -> ParseOk(JBool(FALSE), i + 5)
           [] s[i] = QUOTE ->
                LET r == ParseStringBody(s, i + 1, <<>>)
                IN  IF r.ok THEN ParseOk(JStr(r.v), r.i) ELSE ParseFail
           [] s[i] = "{" ->
                IF i + 1 <= Len(s) /\ s[i + 1] = "}" THEN ParseOk(JObj(<<>>), i + 2)
                ELSE ParseMembers(s, i + 1, <<>>)
           [] s[i] = "[" ->
                IF i + 1 <= Len(s) /\ s[i + 1] = "]" THEN ParseOk(JArr(<<>>), i + 2)
                ELSE ParseElems(s, i + 1, <<>>)
           [] s[i] = "-" \/ IsDigit(s[i]) -> ParseNumber(s, i)
           [] OTHER -> ParseFail

\* json.Unmarshal(bytes, &generic): ok only when the whole text is one value.
Unmarshal(s) ==
    LET r == ParseValue(s, 1)
    IN  IF r.ok /\ r.i = Len(s) + 1 THEN ParseOk(r.v, r.i) ELSE ParseFail

-----------------------------------------------------------------------------
(* The Value trees the serializers are handed.                             *)

KeyA     == <<"a">>
KeyQuote == <<"a", QUOTE, "b">>
KeyEsc   == <<BSLASH, CTRL>>
Keys     == {KeyA, KeyQuote, KeyEsc}

Times == {[seconds |-> 0, nanos |-> 0], [seconds |-> 1667606400, nanos |-> 123456789],
          [seconds |-> 951782399, nanos |-> 500000000], [seconds |-> -86401, nanos |-> 1]}

F32_45_3 == [m |-> 453, e |-> 1]
F64_25   == [m |-> 25343564, e |-> 6]

ScalarValues ==
    {NullValue, NewBoolValue(TRUE), NewBoolValue(FALSE),
     NewInt32Value(-7), NewInt64Value(1), NewUint32Value(45), NewUint64Value(556),
     NewFloat32Value(F32_45_3), NewFloat64Value(F64_25),
     NewStringValue(<<>>), NewStringValue(<<"x", QUOTE, BSLASH, CTRL>>)}
    \cup {NewTimestampValue(t) : t \in Times}

LeafValues == ScalarValues \cup {UnsetValue}

\* The values put next to a subtree inside a container.
SiblingValues == {NewInt64Value(1), UnsetValue, NilStructValue}

\* Seq(S) restricted to length n.
SeqsOfLen(S, n) == [1..n -> S]

\* Lists of up to `width` elements: x at one position, siblings elsewhere.
ListsAround(x, width) ==
    {NewListValue([i \in 1..n |-> IF i = p THEN x ELSE sib[i]]) :
        <<n, p, sib>> \in {t \in (1..width) \X (1..width) \X SeqsOfLen(SiblingValues, width) :
                              t[2] <= t[1]}}

\* Structs of up to `width` members: x under one key, siblings under the others.
StructsAround(x, width) ==
    {NewStructValue([k \in ks |-> IF k = kx THEN x ELSE sib[k]]) :
        <<ks, kx, sib>> \in {t \in (SUBSET Keys) \X Keys \X [Keys -> SiblingValues] :
                                t[2] \in t[1] /\ Cardinality(t[1]) <= width}}

EmptyContainers == {NilStructValue, NilListValue, NewStructValue(<<>>), NewListValue(<<>>)}

\* Containers of one element around x, for the levels above the first.
ThinAround(x) ==
    {NewListValue(<<x>>), NewListValue(<<NewInt64Value(1), x>>),
     NewStructValue(KeyA :> x), NewStructValue((KeyQuote :> x) @@ (KeyA :> NullValue))}

RECURSIVE ValueTrees(_)
\* The trees of nesting depth <= d.
ValueTrees(d) ==
    IF d = 0 THEN LeafValues
    ELSE IF d = 1 THEN
        LeafValues \cup EmptyContainers
        \cup UNION {ListsAround(x, MaxWidth) \cup StructsAround(x, MaxWidth) : x \in LeafValues}
    ELSE LET sub == ValueTrees(d - 1)
         IN  sub \cup UNION {ThinAround(x) : x \in sub}

NoInput  == [go |-> "none"]
NoNative == [go |-> "none"]

-----------------------------------------------------------------------------
(* The operations.                                                         *)

RECURSIVE KeysOf(_)
\* The keys of all the Structs of a tree.
KeysOf(v) ==
    CASE v.kind = "struct_value" -> DOMAIN v.data \cup UNION {KeysOf(v.data[k]) : k \in DOMAIN v.data}
      [] v.kind = "list_value"   -> UNION {KeysOf(v.values[i]) : i \in DOMAIN v.values}
      [] OTHER                   -> {}

\* The orders in which `range` may visit the keys S.
KeyOrders(S) == {o \in [1..Cardinality(S) -> S] : \A k \in S : \E i \in DOMAIN o : o[i] = k}

\* The bytes the last MarshalFastJSON call appended to the Writer.
FastOut == SubSeq(w, wmark + 1, Len(w))

\* err := val.MarshalFastJSON(w), the map iteration taking `order`.
MarshalFastJSONCall(order) ==
    /\ st = "value"
    /\ ferr = "none"
    /\ LET r == ValueMarshalFastJSON(val, order)
       IN  /\ w' = w \o r.out
           /\ wmark' = Len(w)
           /\ ferr' = IF r.err THEN "err" ELSE "ok"
    /\ UNCHANGED <<in, val, st, jout, jerr, native, nst, std, sst, thr, bufs>>

\* data, err := val.MarshalJSON()
MarshalJSONCall ==
    /\ st = "value"
    /\ jerr = "none"
    /\ LET r == ValueMarshalJSON(val)
       IN  /\ jout' = r.out
           /\ jerr' = IF r.err THEN "err" ELSE "ok"
    /\ UNCHANGED <<in, val, st, w, wmark, ferr, native, nst, std, sst, thr, bufs>>

-----------------------------------------------------------------------------
(* Native Go values, tagged with their dynamic type.                       *)

GoNil           == [go |-> "nil"]
GoBool(b)       == [go |-> "bool", b |-> b]
\* typ: "int", "int8", "int16", "int32", "int64", "uint", ..., "uint64"
GoInt(typ, n)   == [go |-> typ, n |-> n]
\* an integer of type typ beyond the range of the checker's integers
GoWide(typ, neg, limbs) == [go |-> typ, neg |-> neg, limbs |-> limbs]
\* typ: "float32", "float64"
GoFloat(typ, f) == [go |-> typ, f |-> f]
GoString(s)     == [go |-> "string", s |-> s]
\* []byte
GoBytes(b)      == [go |-> "bytes", bytes |-> b]
\* time.Time: the instant, as t.Unix() and t.Nanosecond(), and the offset of
\* its location east of UTC in seconds
GoTimeIn(t, offset) ==
    [go |-> "time", seconds |-> t.seconds, nanos |-> t.nanos, offset |-> offset]
\* time.Time, in UTC
GoTime(t)       == GoTimeIn(t, 0)
\* map[string]T
GoMap(m)        == [go |-> "map", m |-> m]
\* []T or [n]T, T not byte
GoSlice(s)      == [go |-> "slice", elems |-> s]
\* a struct value: its exported fields with their values, and the names of
\* its unexported fields, which no other package can read
GoStructHiding(flds, names) == [go |-> "struct", fields |-> flds, unexported |-> names]
\* a struct value with exported fields only
GoStruct(flds)  == GoStructHiding(flds, {})
GoNilPtr        == [go |-> "ptr", isnil |-> TRUE, elem |-> GoNil]
GoPtr(x)        == [go |-> "ptr", isnil |-> FALSE, elem |-> x]
\* shapes without a mapping
GoChan          == [go |-> "chan"]
GoComplex       == [go |-> "complex128"]

IntTypes   == {"int", "int8", "int16", "int32", "int64",
               "uint", "uint8", "uint16", "uint32", "uint64"}
FloatTypes == {"float32", "float64"}

-----------------------------------------------------------------------------
(* encoding/base64: StdEncoding.EncodeToString.                            *)

Base64Std ==
    <<"A", "B", "C", "D", "E", "F", "G", "H", "I", "J", "K", "L", "M", "N", "O", "P",
      "Q", "R", "S", "T", "U", "V", "W", "X", "Y", "Z", "a", "b", "c", "d", "e", "f",
      "g", "h", "i", "j", "k", "l", "m", "n", "o", "p", "q", "r", "s", "t", "u", "v",
      "w", "x", "y", "z", "0", "1", "2", "3", "4", "5", "6", "7", "8", "9", "+", "/">>

\* The URL-safe alphabet: what the encoding must not be.
Base64URL == [i \in 1..64 |-> IF i = 63 THEN "-" ELSE IF i = 64 THEN "_" ELSE Base64Std[i]]

RECURSIVE EncodeWith(_, _)
\* Three bytes become four characters; a short last group is padded with "=".
EncodeWith(abc, b) ==
    IF Len(b) = 0 THEN <<>>
    ELSE LET b2 == IF Len(b) >= 2 THEN b[2] ELSE 0
             b3 == IF Len(b) >= 3 THEN b[3] ELSE 0
             v  == b[1] * 65536 + b2 * 256 + b3
             c1 == abc[(v \div 262144) + 1]
             c2 == abc[((v \div 4096) % 64) + 1]
             c3 == IF Len(b) >= 2 THEN abc[((v \div 64) % 64) + 1] ELSE "="
             c4 == IF Len(b) >= 3 THEN abc[(v % 64) + 1] ELSE "="
         IN  <<c1, c2, c3, c4>>
             \o (IF Len(b) > 3 THEN EncodeWith(abc, SubSeq(b, 4, Len(b))) ELSE <<>>)

EncodeToStringURL(b) == EncodeWith(Base64URL, b)

\* base64.StdEncoding.EncodeToString(b)
EncodeToString(b) == EncodeWith(Base64Std, b)

-----------------------------------------------------------------------------
(* helpers.NewValue: native value -> messages.Value.                       *)

\* A result of NewValue: the Value and whether an error is returned.
ConvResult(v, err) == [v |-> v, err |-> err]

PlatformIntKind32 == "int32_value"

\* The variant NewValue gives a Go int.
PlatformIntKind == "int64_value"

\* The variant NewValue gives a Go uint.
PlatformUintKind == "uint64_value"

GoNumericKindCollapsed(typ) == "number_value"

\* The variant NewValue gives each fixed-width numeric type.
GoNumericKind(typ) ==
    CASE typ = "int32"   -> "int32_value"
      [] typ = "int64"   -> "int64_value"
      [] typ = "uint32"  -> "uint32_value"
      [] typ = "uint64"  -> "uint64_value"
      [] typ = "float32" -> "float32_value"
      [] typ = "float64" -> "float64_value"

\* Integers narrower than 32 bits are widened to 32 bits.
NarrowNumericKind(typ) ==
    IF typ \in {"int8", "int16"} THEN "int32_value" ELSE "uint32_value"

NumericKindOf(typ) ==
    CASE typ = "int"  -> PlatformIntKind
      [] typ = "uint" -> PlatformUintKind
      [] typ \in {"int8", "int16", "uint8", "uint16"} -> NarrowNumericKind(typ)
      [] OTHER -> GoNumericKind(typ)

\* The Value of variant `kind` holding the number of the native integer x.
IntegerValue(kind, x) ==
    IF IsWide(x) THEN [kind |-> kind, neg |-> x.neg, limbs |-> x.limbs]
    ELSE [kind |-> kind, n |-> x.n]

ConvertNilUnset == ConvResult(UnsetValue, FALSE)

\* NewValue(nil), and NewValue of a nil pointer.
ConvertNil == ConvResult(NullValue, FALSE)

\* The error result: no Value, an UnsupportedShape error.
ConvertError == ConvResult(UnsetValue, TRUE)

RECURSIVE NewValueLenient(_)
\* NewValue with a fallback branch that yields Null instead of an error.
NewValueLenient(x) ==
    CASE x.go = "nil"        -> ConvertNil
      [] x.go = "bool"       -> ConvResult(NewBoolValue(x.b), FALSE)
      [] x.go \in IntTypes   -> ConvResult(IntegerValue(NumericKindOf(x.go), x), FALSE)
      [] x.go \in FloatTypes -> ConvResult([kind |-> NumericKindOf(x.go), f |-> x.f], FALSE)
      [] x.go = "string"     -> ConvResult(NewStringValue(x.s), FALSE)
      [] x.go = "bytes"      -> ConvResult(NewStringValue(EncodeToString(x.bytes)), FALSE)
      [] x.go = "time"       -> ConvResult(NewTimestampValue(x), FALSE)
      [] x.go = "ptr"        -> IF x.isnil THEN ConvertNil ELSE NewValueLenient(x.elem)
      [] x.go = "map"        ->
            ConvResult(NewStructValue([k \in DOMAIN x.m |-> NewValueLenient(x.m[k]).v]), FALSE)
      [] x.go = "struct"     ->
            ConvResult(NewStructValue([k \in DOMAIN x.fields |-> NewValueLenient(x.fields[k]).v]), FALSE)
      [] x.go = "slice"      ->
            ConvResult(NewListValue([i \in DOMAIN x.elems |-> NewValueLenient(x.elems[i]).v]), FALSE)
      [] OTHER               -> ConvertNil

\* NewValue with a map branch that loses one entry.
NewValueDropsKey(x) ==
    LET r == NewValueLenient(x)
    IN  IF x.go = "map" /\ DOMAIN x.m # {}
        THEN LET lost == CHOOSE k \in DOMAIN x.m : TRUE
             IN  ConvResult(NewStructValue([k \in DOMAIN x.m \ {lost} |-> r.v.data[k]]), FALSE)
        ELSE r

\* NewValue with a struct branch that keeps one field only.
NewValueOneField(x) ==
    LET r == NewValueLenient(x)
    IN  IF x.go = "struct" /\ DOMAIN x.fields # {}
        THEN LET kept == CHOOSE k \in DOMAIN x.fields : TRUE
             IN  ConvResult(NewStructValue(kept :> r.v.data[kept]), FALSE)
        ELSE r

RECURSIVE NewValue(_)
\* func NewValue(v interface{}) (*messages.Value, error)
NewValue(x) ==
    CASE x.go = "nil"        -> ConvertNil
      [] x.go = "bool"       -> ConvResult(NewBoolValue(x.b), FALSE)
      [] x.go \in IntTypes   -> ConvResult(IntegerValue(NumericKindOf(x.go), x), FALSE)
      [] x.go \in FloatTypes -> ConvResult([kind |-> NumericKindOf(x.go), f |-> x.f], FALSE)
      [] x.go = "string"     -> ConvResult(NewStringValue(x.s), FALSE)
      [] x.go = "bytes"      -> ConvResult(NewStringValue(EncodeToString(x.bytes)), FALSE)
      [] x.go = "time"       -> ConvResult(NewTimestampValue(x), FALSE)
      [] x.go = "ptr"        -> IF x.isnil THEN ConvertNil ELSE NewValue(x.elem)
      [] x.go = "map"        ->
            IF \E k \in DOMAIN x.m : NewValue(x.m[k]).err THEN ConvertError
            ELSE ConvResult(NewStructValue([k \in DOMAIN x.m |-> NewValue(x.m[k]).v]), FALSE)
      [] x.go = "struct"     ->
            IF \E k \in DOMAIN x.fields : NewValue(x.fields[k]).err THEN ConvertError
            ELSE ConvResult(NewStructValue([k \in DOMAIN x.fields |-> NewValue(x.fields[k]).v]), FALSE)
      [] x.go = "slice"      ->
            IF \E i \in DOMAIN x.elems : NewValue(x.elems[i]).err THEN ConvertError
            ELSE ConvResult(NewListValue([i \in DOMAIN x.elems |-> NewValue(x.elems[i]).v]), FALSE)
      [] OTHER               -> ConvertError

-----------------------------------------------------------------------------
(* helpers.AsInterface: messages.Value -> native value.                    *)

\* Every integer comes back as int64 and every float as float64.
GoTypeOfKindWidened(kind) ==
    IF kind \in {"int32_value", "int64_value", "uint32_value", "uint64_value"}
    THEN "int64" ELSE "float64"

\* The Go type each numeric variant comes back as.
GoTypeOfKind(kind) ==
    CASE kind = "int32_value"   -> "int32"
      [] kind = "int64_value"   -> "int64"
      [] kind = "uint32_value"  -> "uint32"
      [] kind = "uint64_value"  -> "uint64"
      [] kind = "float32_value" -> "float32"
      [] kind = "float64_value" -> "float64"
      [] kind = "number_value"  -> "float64"

RECURSIVE AsInterfaceReversed(_)
\* AsInterface with the elements of a List returned from the last to the first.
AsInterfaceReversed(v) ==
    CASE v.kind = "null_value"      -> GoNil
      [] v.kind = "bool_value"      -> GoBool(v.b)
      [] v.kind \in {"int32_value", "int64_value", "uint32_value", "uint64_value"} ->
            IF IsWide(v) THEN GoWide(GoTypeOfKind(v.kind), v.neg, v.limbs)
            ELSE GoInt(GoTypeOfKind(v.kind), v.n)
      [] v.kind \in {"float32_value", "float64_value", "number_value"} ->
            GoFloat(GoTypeOfKind(v.kind), v.f)
      [] v.kind = "string_value"    -> GoString(v.s)
      [] v.kind = "timestamp_value" -> GoTime(v)
      [] v.kind = "struct_value"    ->
            GoMap([k \in DOMAIN v.data |-> AsInterfaceReversed(v.data[k])])
      [] v.kind = "list_value"      ->
            GoSlice([i \in DOMAIN v.values |->
                        AsInterfaceReversed(v.values[Len(v.values) + 1 - i])])
      [] OTHER                      -> GoNil

RECURSIVE AsInterface(_)
\* func AsInterface(val *messages.Value) interface{}
AsInterface(v) ==
    CASE v.kind = "null_value"      -> GoNil
      [] v.kind = "bool_value"      -> GoBool(v.b)
      [] v.kind \in {"int32_value", "int64_value", "uint32_value", "uint64_value"} ->
            IF IsWide(v) THEN GoWide(GoTypeOfKind(v.kind), v.neg, v.limbs)
            ELSE GoInt(GoTypeOfKind(v.kind), v.n)
      [] v.kind \in {"float32_value", "float64_value", "number_value"} ->
            GoFloat(GoTypeOfKind(v.kind), v.f)
      [] v.kind = "string_value"    -> GoString(v.s)
      [] v.kind = "timestamp_value" -> GoTime(v)
      [] v.kind = "struct_value"    -> GoMap([k \in DOMAIN v.data |-> AsInterface(v.data[k])])
      [] v.kind = "list_value"      -> GoSlice([i \in DOMAIN v.values |-> AsInterface(v.values[i])])
      [] OTHER                      -> GoNil

-----------------------------------------------------------------------------
(* json.Marshal of the native value itself, the reference encoding of      *)
(* TestJSONMarshal.                                                        *)

RECURSIVE StdMarshal(_), StdMarshalMap(_, _, _, _), StdMarshalSlice(_, _, _)

\* The members of a map or struct, keys sorted, from the i-th key on.
StdMarshalMap(m, keys, i, out) ==
    IF i > Len(keys) THEN Result(out \o <<"}">>, FALSE)
    ELSE LET sep == IF i > 1 THEN <<",">> ELSE <<>>
             r   == StdMarshal(m[keys[i]])
         IN  IF r.err THEN Result(<<>>, TRUE)
             ELSE StdMarshalMap(m, keys, i + 1,
                                out \o sep \o WriteString(keys[i]) \o <<":">> \o r.out)

StdMarshalSlice(s, i, out) ==
    IF i > Len(s) THEN Result(out \o <<"]">>, FALSE)
    ELSE LET sep == IF i > 1 THEN <<",">> ELSE <<>>
             r   == StdMarshal(s[i])
         IN  IF r.err THEN Result(<<>>, TRUE)
             ELSE StdMarshalSlice(s, i + 1, out \o sep \o r.out)

\* json.Marshal(x)
StdMarshal(x) ==
    CASE x.go = "nil"        -> Result(NullText, FALSE)
      [] x.go = "bool"       -> Result(WriteBool(x.b), FALSE)
      [] x.go \in IntTypes   -> Result(WriterInt64(x), FALSE)
      [] x.go \in FloatTypes -> Result(AppendFloat(x.f), FALSE)
      [] x.go = "string"     -> Result(WriteString(x.s), FALSE)
      [] x.go = "bytes"      -> Result(<<QUOTE>> \o EncodeToString(x.bytes) \o <<QUOTE>>, FALSE)
      [] x.go = "time"       -> NativeTimeMarshalJSON(x)
      [] x.go = "ptr"        -> IF x.isnil THEN Result(NullText, FALSE) ELSE StdMarshal(x.elem)
      [] x.go = "map"        -> StdMarshalMap(x.m, SortKeys(DOMAIN x.m), 1, <<"{">>)
      [] x.go = "struct"     -> StdMarshalMap(x.fields, SortKeys(DOMAIN x.fields), 1, <<"{">>)
      [] x.go = "slice"      -> StdMarshalSlice(x.elems, 1, <<"[">>)
      [] OTHER               -> Result(<<>>, TRUE)

-----------------------------------------------------------------------------
(* The native inputs handed to NewValue.                                   *)

FieldA == <<"A">>
FieldB == <<"B">>

NativeScalars ==
    {GoNil, GoNilPtr, GoBool(FALSE),
     GoInt("int", 32), GoInt("uint", 32), GoInt("int8", -8), GoInt("uint16", 60000),
     GoInt("int32", -7), GoInt("int64", 4590), GoInt("uint32", 45), GoInt("uint64", 556),
     GoFloat("float32", F32_45_3), GoFloat("float64", F64_25),
     GoString(<<"x", QUOTE, BSLASH, CTRL>>),
     GoBytes(<<>>), GoBytes(<<255, 255>>), GoBytes(<<77>>), GoBytes(<<0, 16, 131, 255>>),
     GoPtr(GoInt("int64", 32)),
     GoTimeIn([seconds |-> 1667606400, nanos |-> 123456789], 3600)}
    \cup {GoTime(t) : t \in Times}

UnsupportedNatives == {GoChan, GoComplex}

NativeLeaves == NativeScalars \cup UnsupportedNatives

NativeSiblings == {GoInt("int64", 1), GoChan}

\* Slices of up to `width` elements: x at one position, siblings elsewhere.
SlicesAround(x, width) ==
    {GoSlice([i \in 1..n |-> IF i = p THEN x ELSE sib[i]]) :
        <<n, p, sib>> \in {t \in (1..width) \X (1..width) \X SeqsOfLen(NativeSiblings, width) :
                              t[2] <= t[1]}}

\* Maps of up to `width` entries: x under one key, siblings under the others.
MapsAround(x, width) ==
    {GoMap([k \in ks |-> IF k = kx THEN x ELSE sib[k]]) :
        <<ks, kx, sib>> \in {t \in (SUBSET Keys) \X Keys \X [Keys -> NativeSiblings] :
                                t[2] \in t[1] /\ Cardinality(t[1]) <= width}}

FieldC == <<"c">>

\* struct{A T}, struct{A T; B int64}, struct{A T; c bool}, and a pointer to x.
RecordsAround(x) ==
    {GoStruct(FieldA :> x), GoStruct((FieldA :> x) @@ (FieldB :> GoInt("int64", 1))),
     GoStructHiding(FieldA :> x, {FieldC}), GoPtr(x)}

EmptyNatives == {GoMap(<<>>), GoSlice(<<>>)}

\* []string{"value1", "value2"} and []interface{}{"value1", false}
StringLists ==
    {GoSlice(<<GoString(<<"v", "1">>), GoString(<<"v", "2">>)>>),
     GoSlice(<<GoString(<<"v", "1">>), GoBool(FALSE)>>)}

NativeThinAround(x) ==
    {GoSlice(<<x>>), GoSlice(<<GoInt("int64", 1), x>>),
     GoMap(KeyA :> x), GoMap((KeyQuote :> x) @@ (KeyA :> GoNil)), GoStruct(FieldA :> x)}

RECURSIVE NativeInputs(_)
\* The native values of nesting depth <= d.
NativeInputs(d) ==
    IF d = 0 THEN NativeLeaves
    ELSE IF d = 1 THEN
        NativeLeaves \cup EmptyNatives \cup StringLists
        \cup UNION {SlicesAround(x, MaxWidth) \cup MapsAround(x, MaxWidth) \cup RecordsAround(x) :
                       x \in NativeLeaves}
    ELSE LET sub == NativeInputs(d - 1)
         IN  sub \cup UNION {NativeThinAround(x) : x \in sub}

-----------------------------------------------------------------------------
(* The converter operations.                                               *)

\* val, err := helpers.NewValue(in)
NewValueCall ==
    /\ st = "input"
    /\ LET r == NewValue(in)
       IN  /\ val' = r.v
           /\ st' = IF r.err THEN "failed" ELSE "value"
    /\ UNCHANGED <<in, w, wmark, ferr, jout, jerr, native, nst, std, sst, thr, bufs>>

\* native := helpers.AsInterface(val)
AsInterfaceCall ==
    /\ st = "value"
    /\ nst = "none"
    /\ native' = AsInterface(val)
    /\ nst' = "done"
    /\ UNCHANGED <<in, val, st, w, wmark, ferr, jout, jerr, std, sst, thr, bufs>>

\* stdJSON, err := json.Marshal(in)
StdMarshalCall ==
    /\ in # NoInput
    /\ sst = "none"
    /\ LET r == StdMarshal(in)
       IN  /\ std' = r.out
           /\ sst' = IF r.err THEN "err" ELSE "ok"
    /\ UNCHANGED <<in, val, st, w, wmark, ferr, jout, jerr, native, nst, thr, bufs>>

\* A Value tree built with the New...Value constructors, nothing called yet.
Init ==
    /\ in = NoInput
    /\ val \in ValueTrees(MaxDepth)
    /\ st = "value"
    /\ w = <<>>
    /\ wmark = 0
    /\ ferr = "none"
    /\ jout = <<>>
    /\ jerr = "none"
    /\ native = NoNative
    /\ nst = "none"
    /\ std = <<>>
    /\ sst = "none"
    /\ thr = <<>>
    /\ bufs = <<>>

Next ==
    \/ \E order \in KeyOrders(KeysOf(val)) : MarshalFastJSONCall(order)
    \/ MarshalJSONCall
    \/ AsInterfaceCall

Spec == Init /\ [][Next]_vars

\* A native value, not yet converted.
InitConvert ==
    /\ in \in NativeInputs(MaxDepth)
    /\ val = UnsetValue
    /\ st = "input"
    /\ w = <<>>
    /\ wmark = 0
    /\ ferr = "none"
    /\ jout = <<>>
    /\ jerr = "none"
    /\ native = NoNative
    /\ nst = "none"
    /\ std = <<>>
    /\ sst = "none"
    /\ thr = <<>>
    /\ bufs = <<>>

NextConvert ==
    \/ NewValueCall
    \/ AsInterfaceCall
    \/ StdMarshalCall
    \/ MarshalJSONCall
    \/ \E order \in KeyOrders(KeysOf(val)) : MarshalFastJSONCall(order)

SpecConvert == InitConvert /\ [][NextConvert]_vars

\* math.MaxUint64, 2^63, 2^53 + 1 and 10^18 + 1 as uint64 and uint;
\* math.MaxInt64, math.MinInt64, 2^53 + 1 and -(2^53 + 1) as int64 and int.
Uint64Max == GoWide("uint64", FALSE, <<18, 446744073, 709551615>>)

WideLeaves ==
    {Uint64Max,
     GoWide("uint64", FALSE, <<9, 223372036, 854775808>>),
     GoWide("uint64", FALSE, <<9007199, 254740993>>),
     GoWide("uint", FALSE, <<1, 0, 1>>),
     GoWide("int64", FALSE, <<9, 223372036, 854775807>>),
     GoWide("int64", TRUE, <<9, 223372036, 854775808>>),
     GoWide("int64", FALSE, <<9007199, 254740993>>),
     GoWide("int", TRUE, <<9007199, 254740993>>)}

\* The wide numbers, alone, in slices of up to MaxWidth elements and in a map.
WideInputs ==
    WideLeaves
    \cup {GoSlice(s) : s \in UNION {SeqsOfLen(WideLeaves, n) : n \in 1..MaxWidth}}
    \cup {GoMap(KeyA :> x) : x \in WideLeaves}

\* A native value holding 64-bit numbers above 2^53, not yet converted.
InitWide ==
    /\ in \in WideInputs
    /\ val = UnsetValue
    /\ st = "input"
    /\ w = <<>>
    /\ wmark = 0
    /\ ferr = "none"
    /\ jout = <<>>
    /\ jerr = "none"
    /\ native = NoNative
    /\ nst = "none"
    /\ std = <<>>
    /\ sst = "none"
    /\ thr = <<>>
    /\ bufs = <<>>

NextWide ==
    \/ NewValueCall
    \/ \E order \in KeyOrders(KeysOf(val)) : MarshalFastJSONCall(order)
    \/ MarshalJSONCall
    \/ AsInterfaceCall

SpecWide == InitWide /\ [][NextWide]_vars

\* math.MinInt32 and math.MaxUint32, 2^31 as a uint32.
Int32Min  == -2147483647 - 1
Uint32Max == IntegerValue("uint32_value", GoWide("uint32", FALSE, <<4, 294967295>>))
Uint32Mid == IntegerValue("uint32_value", GoWide("uint32", FALSE, <<2, 147483648>>))

\* Int32 and Uint32 values at and around the ends of their ranges.
WidenLeaves ==
    {NewInt32Value(n) : n \in {Int32Min, -2147483647, -65536, -7, -1, 0, 1, 2147483647}}
    \cup {NewUint32Value(n) : n \in {0, 45, 65536, 2147483647}}
    \cup {Uint32Mid, Uint32Max}

\* The 32-bit numbers, alone, in lists of up to MaxWidth elements and in a
\* Struct.
WidenTrees ==
    WidenLeaves
    \cup {NewListValue(s) : s \in UNION {SeqsOfLen(WidenLeaves, n) : n \in 1..MaxWidth}}
    \cup {NewStructValue(KeyA :> x) : x \in WidenLeaves}

\* A Value tree of 32-bit numbers, nothing called yet.
InitWiden ==
    /\ in = NoInput
    /\ val \in WidenTrees
    /\ st = "value"
    /\ w = <<>>
    /\ wmark = 0
    /\ ferr = "none"
    /\ jout = <<>>
    /\ jerr = "none"
    /\ native = NoNative
    /\ nst = "none"
    /\ std = <<>>
    /\ sst = "none"
    /\ thr = <<>>
    /\ bufs = <<>>

NextWiden ==
    \/ \E order \in KeyOrders(KeysOf(val)) : MarshalFastJSONCall(order)
    \/ MarshalJSONCall

SpecWiden == InitWiden /\ [][NextWiden]_vars

-----------------------------------------------------------------------------
(* The streaming serializer step by step: every call of a Writer method,   *)
(* every call of MarshalFastJSON and every return is one step of the       *)
(* goroutine that runs it.  A frame of the call stack holds the receiver   *)
(* `v`, the position `pc` in the method and, in the loops, the keys in the *)
(* order `range` yields them and the index `i` of the current one.  A      *)
(* goroutine keeps in `before` what its Writer held when its call began    *)
(* and in `deepest` the most container calls it has had active at once.    *)

ValueFrame(v)   == [f |-> "value",  v |-> v,  keys |-> <<>>, i |-> 0, pc |-> "switch"]
StructFrame(sv) == [f |-> "struct", v |-> sv, keys |-> <<>>, i |-> 0, pc |-> "begin"]
ListFrame(lv)   == [f |-> "list",   v |-> lv, keys |-> <<>>, i |-> 0, pc |-> "begin"]

\* A goroutine about to call root.MarshalFastJSON(w), `range` taking `order`.
NewGoroutine(root, order) ==
    [root |-> root, order |-> order, stack |-> <<>>, ret |-> FALSE,
     state |-> "ready", err |-> FALSE, deepest |-> 0, before |-> <<>>]

\* The number of Struct.MarshalFastJSON and ListValue.MarshalFastJSON calls
\* that are active on a stack.
ContainerFrames(stack) == Cardinality({j \in DOMAIN stack : stack[j].f # "value"})

\* The frame that is running, and the goroutine with that frame replaced.
Top(th) == th.stack[Len(th.stack)]
SetTop(th, fr) == [th EXCEPT !.stack[Len(th.stack)] = fr]

\* A call: a new frame on the stack.
Push(th, fr) ==
    LET s == Append(th.stack, fr)
    IN  [th EXCEPT !.stack = s,
                   !.deepest = IF ContainerFrames(s) > @ THEN ContainerFrames(s) ELSE @]

\* `return err`: the frame is left and the caller finds err; the goroutine
\* is done when the outermost call returns.
Return(th, e) ==
    LET s == SubSeq(th.stack, 1, Len(th.stack) - 1)
    IN  [th EXCEPT !.stack = s, !.ret = e,
                   !.state = IF s = <<>> THEN "done" ELSE "running",
                   !.err = IF s = <<>> THEN e ELSE @]

\* fastjson.Writer: every method appends to the bytes written so far.
WriterAppend(buf, text) == buf \o text

\* The result of a step: the goroutine and its Writer after it.
Stepped(th, buf) == [thr |-> th, buf |-> buf]

\* One step of func (val *Value) MarshalFastJSON(w *fastjson.Writer) error
ValueStep(th, buf) ==
    LET fr == Top(th)
        v  == fr.v
    IN  CASE fr.pc = "ret" -> Stepped(Return(th, th.ret), buf)
          [] fr.pc = "time" ->
                Stepped(SetTop(th, [fr EXCEPT !.pc = "quote"]),
                        WriterAppend(buf, FormatRFC3339Nano(v)))
          [] fr.pc = "quote" -> Stepped(Return(th, FALSE), WriterAppend(buf, <<QUOTE>>))
          [] fr.pc = "switch" /\ v.kind = "struct_value" ->
                Stepped(Push(SetTop(th, [fr EXCEPT !.pc = "ret"]), StructFrame(v)), buf)
          [] fr.pc = "switch" /\ v.kind = "list_value" ->
                Stepped(Push(SetTop(th, [fr EXCEPT !.pc = "ret"]), ListFrame(v)), buf)
          [] fr.pc = "switch" /\ v.kind = "timestamp_value" ->
                Stepped(SetTop(th, [fr EXCEPT !.pc = "time"]), WriterAppend(buf, <<QUOTE>>))
          [] fr.pc = "switch" /\ v.kind = "unset" -> Stepped(Return(th, TRUE), buf)
          [] OTHER ->
                Stepped(Return(th, FALSE), WriterAppend(buf, ValueMarshalFastJSON(v, <<>>).out))

\* Struct.MarshalFastJSON at `if err != nil { return ... }` with the buffer
\* cut back to where the Struct began.
StructReturnRewinds(th, buf) ==
    LET opens == {j \in DOMAIN buf : buf[j] = "{"}
        start == IF opens = {} THEN 1 ELSE CHOOSE j \in opens : \A k \in opens : k <= j
    IN  IF th.ret THEN Stepped(Return(th, TRUE), SubSeq(buf, 1, start - 1))
        ELSE Stepped(SetTop(th, [Top(th) EXCEPT !.i = @ + 1, !.pc = "loop"]), buf)

\* Struct.MarshalFastJSON returning after its first member, error or not.
StructReturnStops(th, buf) == Stepped(Return(th, th.ret), buf)

\* Struct.MarshalFastJSON after err := val.MarshalFastJSON(w)
StructReturn(th, buf) ==
    IF th.ret THEN Stepped(Return(th, TRUE), buf)
    ELSE Stepped(SetTop(th, [Top(th) EXCEPT !.i = @ + 1, !.pc = "loop"]), buf)

\* One step of func (sv *Struct) MarshalFastJSON(w *fastjson.Writer) error
StructStep(th, buf) ==
    LET fr == Top(th)
        sv == fr.v
    IN  CASE fr.pc = "begin" ->
                IF sv.isnil THEN Stepped(Return(th, FALSE), buf)
                ELSE Stepped(SetTop(th, [fr EXCEPT !.pc = "loop", !.i = 1,
                                                   !.keys = KeysInOrder(sv.data, th.order)]),
                             WriterAppend(buf, <<"{">>))
          [] fr.pc = "loop" ->
                IF fr.i > Len(fr.keys)
                THEN Stepped(Return(th, FALSE), WriterAppend(buf, <<"}">>))
                ELSE IF fr.i > 1
                THEN Stepped(SetTop(th, [fr EXCEPT !.pc = "quote"]), WriterAppend(buf, <<",">>))
                ELSE Stepped(SetTop(th, [fr EXCEPT !.pc = "key"]),
                             WriterAppend(buf, RawString(<<QUOTE>>)))
          [] fr.pc = "quote" ->
                Stepped(SetTop(th, [fr EXCEPT !.pc = "key"]),
                        WriterAppend(buf, RawString(<<QUOTE>>)))
          [] fr.pc = "key" ->
                Stepped(SetTop(th, [fr EXCEPT !.pc = "colon"]),
                        WriterAppend(buf, RawString(fr.keys[fr.i])))
          [] fr.pc = "colon" ->
                Stepped(SetTop(th, [fr EXCEPT !.pc = "call"]),
                        WriterAppend(buf, RawString(<<QUOTE, ":">>)))
          [] fr.pc = "call" ->
                Stepped(Push(SetTop(th, [fr EXCEPT !.pc = "ret"]),
                             ValueFrame(sv.data[fr.keys[fr.i]])), buf)
          [] OTHER -> StructReturn(th, buf)

\* One step of func (lv *ListValue) MarshalFastJSON(w *fastjson.Writer) error
ListStep(th, buf) ==
    LET fr == Top(th)
        lv == fr.v
    IN  CASE fr.pc = "begin" ->
                IF lv.isnil THEN Stepped(Return(th, FALSE), buf)
                ELSE Stepped(SetTop(th, [fr EXCEPT !.pc = "loop", !.i = 1]),
                             WriterAppend(buf, <<"[">>))
          [] fr.pc = "loop" ->
                IF fr.i > Len(lv.values)
                THEN Stepped(Return(th, FALSE), WriterAppend(buf, <<"]">>))
                ELSE IF fr.i > 1
                THEN Stepped(SetTop(th, [fr EXCEPT !.pc = "call"]), WriterAppend(buf, <<",">>))
                ELSE Stepped(Push(SetTop(th, [fr EXCEPT !.pc = "ret"]),
                                  ValueFrame(lv.values[fr.i])), buf)
          [] fr.pc = "call" ->
                Stepped(Push(SetTop(th, [fr EXCEPT !.pc = "ret"]),
                             ValueFrame(lv.values[fr.i])), buf)
          [] OTHER -> Stepped(SetTop(th, [fr EXCEPT !.i = @ + 1, !.pc = "loop"]), buf)

\* The Writer a goroutine was handed: each goroutine has its own.
WriterShared(t) == 1
WriterOf(t) == t

\* go func() { err = root.MarshalFastJSON(w) }()
GoCall(t) ==
    /\ t \in DOMAIN thr
    /\ thr[t].state = "ready"
    /\ thr' = [thr EXCEPT ![t] = Push([@ EXCEPT !.state = "running",
                                                !.before = bufs[WriterOf(t)]],
                                      ValueFrame(@.root))]
    /\ UNCHANGED <<in, val, st, w, wmark, ferr, jout, jerr, native, nst, std, sst, bufs>>

\* The goroutine t is inside the method `frame`.
Running(t, frame) ==
    /\ t \in DOMAIN thr
    /\ thr[t].state = "running"
    /\ Top(thr[t]).f = frame

\* The goroutine t and its Writer become what the step r left.
Apply(t, r) ==
    /\ thr' = [thr EXCEPT ![t] = r.thr]
    /\ bufs' = [bufs EXCEPT ![WriterOf(t)] = r.buf]
    /\ UNCHANGED <<in, val, st, w, wmark, ferr, jout, jerr, native, nst, std, sst>>

\* The next statement of Value.MarshalFastJSON in goroutine t.
ValueMarshalFastJSONStep(t) ==
    /\ Running(t, "value")
    /\ Apply(t, ValueStep(thr[t], bufs[WriterOf(t)]))

\* The next statement of Struct.MarshalFastJSON in goroutine t.
StructMarshalFastJSONStep(t) ==
    /\ Running(t, "struct")
    /\ Apply(t, StructStep(thr[t], bufs[WriterOf(t)]))

\* The next statement of ListValue.MarshalFastJSON in goroutine t.
ListMarshalFastJSONStep(t) ==
    /\ Running(t, "list")
    /\ Apply(t, ListStep(thr[t], bufs[WriterOf(t)]))

\* The trees the goroutines serialize: scalars, a timestamp, an unset Value,
\* nil and empty containers, Structs of two keys, and trees of depth 2 and 3
\* where a Struct fails below a List and where a member fails first or last.
StepTrees ==
    {NewInt32Value(-7), UnsetValue, NilStructValue, NewListValue(<<>>),
     NewTimestampValue([seconds |-> 1667606400, nanos |-> 123456789]),
     NewStructValue((KeyA :> NewInt64Value(1))
                    @@ (KeyQuote :> NewStringValue(<<"x", QUOTE, BSLASH, CTRL>>))),
     NewStructValue((KeyA :> UnsetValue) @@ (KeyEsc :> NewStructValue(KeyA :> NullValue))),
     NewListValue(<<UnsetValue,
                    NewStructValue((KeyA :> UnsetValue)
                                   @@ (KeyQuote :> NewListValue(<<NewBoolValue(TRUE)>>))),
                    NewInt64Value(1)>>),
     NewStructValue((KeyA :> NewInt64Value(1))
                    @@ (KeyEsc :> NewListValue(<<NewInt64Value(1), NilListValue>>))),
     NewStructValue((FieldA :> NewInt64Value(5))
                    @@ (FieldB :> NewListValue(<<NewBoolValue(TRUE)>>)))}

\* What the caller wrote into a Writer before the call.
Prefixes == {<<>>, <<"[">>}

\* Two goroutines, each with a Writer of its own, about to serialize the
\* same tree or two trees.
InitStep ==
    /\ in = NoInput
    /\ val \in StepTrees
    /\ st = "value"
    /\ w = <<>>
    /\ wmark = 0
    /\ ferr = "none"
    /\ jout = <<>>
    /\ jerr = "none"
    /\ native = NoNative
    /\ nst = "none"
    /\ std = <<>>
    /\ sst = "none"
    /\ \E other \in StepTrees, o1 \in KeyOrders(KeysOf(val)) :
         \E o2 \in KeyOrders(KeysOf(other)) :
            thr = <<NewGoroutine(val, o1), NewGoroutine(other, o2)>>
    /\ \E p \in Prefixes : bufs = <<p, p>>

NextStep ==
    \/ \E t \in 1..2 :
        \/ GoCall(t)
        \/ ValueMarshalFastJSONStep(t)
        \/ StructMarshalFastJSONStep(t)
        \/ ListMarshalFastJSONStep(t)
    \/ MarshalJSONCall

SpecStep == InitStep /\ [][NextStep]_vars

\* The Go scheduler lets every goroutine that can run take its next step.
FairStep == \A t \in 1..2 : WF_vars(GoCall(t) \/ ValueMarshalFastJSONStep(t)
                                   \/ StructMarshalFastJSONStep(t) \/ ListMarshalFastJSONStep(t))

\* One goroutine about to serialize a tree.
InitCall ==
    /\ in = NoInput
    /\ val \in StepTrees
    /\ st = "value"
    /\ w = <<>>
    /\ wmark = 0
    /\ ferr = "none"
    /\ jout = <<>>
    /\ jerr = "none"
    /\ native = NoNative
    /\ nst = "none"
    /\ std = <<>>
    /\ sst = "none"
    /\ \E o1 \in KeyOrders(KeysOf(val)) : thr = <<NewGoroutine(val, o1)>>
    /\ \E p \in Prefixes : bufs = <<p>>

\* A single call, the goroutine that runs it never held back for ever.
SpecCall == InitCall /\ [][NextStep]_vars /\ FairStep

-----------------------------------------------------------------------------
(* Properties of the serializers.                                          *)

BothSerialized == ferr # "none" /\ jerr # "none"

NumericKinds == {"int32_value", "int64_value", "uint32_value", "uint64_value",
                 "float32_value", "float64_value"}

\* A scalar that both the variant list and the streaming serializer know.
IsScalar(v) == v \in ScalarValues

\* C1: for every Value tree the streaming serializer and the tree serializer
\* both succeed or both fail, and when they succeed their outputs parse to
\* deeply equal generic JSON values.
C1_CrossSerializerEquivalence ==
    BothSerialized =>
        /\ ferr = jerr
        /\ ferr = "ok" =>
              LET a == Unmarshal(FastOut)
                  b == Unmarshal(jout)
              IN  a.ok /\ b.ok /\ a.v = b.v

\* C3: a Struct whose members are scalars is written by the streaming
\* serializer as parseable JSON that reparses to an object with exactly the
\* original keys, whatever characters the keys hold.
C3_KeysEscaped ==
    (/\ ferr = "ok"
     /\ val.kind = "struct_value"
     /\ ~val.isnil
     /\ \A k \in DOMAIN val.data : IsScalar(val.data[k]))
    => LET p == Unmarshal(FastOut)
       IN  p.ok /\ p.v.t = "object" /\ DOMAIN p.v.mem = DOMAIN val.data

\* C4: the tree serializer renders every numeric variant as a JSON number
\* and returns no error for it, at top level and as a Struct member;
\* Struct{"a": Int64(1)} yields {"a":1}.
C4_TreeRendersNumerics ==
    /\ (jerr # "none" /\ val.kind \in NumericKinds)
          => jerr = "ok" /\ Unmarshal(jout).ok /\ Unmarshal(jout).v.t = "number"
    /\ (jerr # "none" /\ val = NewStructValue(KeyA :> NewInt64Value(1)))
          => jerr = "ok" /\ jout = <<"{", QUOTE, "a", QUOTE, ":", "1", "}">>

-----------------------------------------------------------------------------
(* Properties of the converters.                                           *)

FixedWidthTypes == {"int32", "int64", "uint32", "uint64", "float32", "float64"}

\* C2: for every supported native input, the JSON written for NewValue(x)
\* succeeds, parses, and parses to the same generic value as json.Marshal(x).
C2_MatchesStdEncoder ==
    (st = "value" /\ sst = "ok" /\ ferr # "none") =>
        /\ ferr = "ok"
        /\ LET a == Unmarshal(FastOut)
               b == Unmarshal(std)
           IN  a.ok /\ b.ok /\ a.v = b.v

SameWidth(x, v) ==
    /\ x.go = "int32"   => v = [kind |-> "int32_value", n |-> x.n]
    /\ x.go = "int64"   => v = [kind |-> "int64_value", n |-> x.n]
    /\ x.go = "uint32"  => v = [kind |-> "uint32_value", n |-> x.n]
    /\ x.go = "uint64"  => v = [kind |-> "uint64_value", n |-> x.n]
    /\ x.go = "float32" => v = [kind |-> "float32_value", f |-> x.f]
    /\ x.go = "float64" => v = [kind |-> "float64_value", f |-> x.f]
    /\ x.go \in IntTypes \cup FloatTypes => v.kind # "number_value"

RECURSIVE BuiltFrom(_, _)
\* x is built only from scalars of the types in `scalars`, maps and slices.
BuiltFrom(x, scalars) ==
    CASE x.go = "map"   -> \A k \in DOMAIN x.m : BuiltFrom(x.m[k], scalars)
      [] x.go = "slice" -> \A i \in DOMAIN x.elems : BuiltFrom(x.elems[i], scalars)
      [] OTHER          -> x.go \in scalars

Base64Chars == {Base64Std[i] : i \in 1..64}

Base64Index(c) == (CHOOSE i \in 1..64 : Base64Std[i] = c) - 1

RECURSIVE Base64Decode(_)
\* The bytes a padded standard base64 text stands for.
Base64Decode(s) ==
    IF Len(s) < 4 THEN <<>>
    ELSE LET pad == IF s[3] = "=" THEN 2 ELSE IF s[4] = "=" THEN 1 ELSE 0
             i3  == IF pad = 2 THEN 0 ELSE Base64Index(s[3])
             i4  == IF pad >= 1 THEN 0 ELSE Base64Index(s[4])
             v   == Base64Index(s[1]) * 262144 + Base64Index(s[2]) * 4096 + i3 * 64 + i4
             all == <<v \div 65536, (v \div 256) % 256, v % 256>>
         IN  SubSeq(all, 1, 3 - pad) \o Base64Decode(SubSeq(s, 5, Len(s)))

\* C8: NewValue of a byte sequence is the String variant holding its padded
\* standard base64 text, and AsInterface gives that text back, not the bytes.
C8_BytesAsBase64 ==
    (st # "input" /\ in.go = "bytes") =>
        /\ st = "value"
        /\ val.kind = "string_value"
        /\ Len(val.s) = 4 * ((Len(in.bytes) + 2) \div 3)
        /\ \A i \in DOMAIN val.s : val.s[i] \in Base64Chars \cup {"="}
        /\ Base64Decode(val.s) = in.bytes
        /\ in.bytes = <<255, 255>> => val.s = <<"/", "/", "8", "=">>
        /\ nst = "done" => native = GoString(val.s) /\ native # in

C8_Witness ==
    /\ nst = "done"
    /\ in = GoBytes(<<255, 255>>)
    /\ native = GoString(<<"/", "/", "8", "=">>)

RECURSIVE NilsAreNull(_, _)
\* Wherever x holds nil or a nil pointer, v holds Null.
NilsAreNull(x, v) ==
    CASE x.go = "nil"    -> v = NullValue
      [] x.go = "ptr"    -> IF x.isnil THEN v = NullValue ELSE NilsAreNull(x.elem, v)
      [] x.go = "map"    -> /\ v.kind = "struct_value"
                            /\ DOMAIN v.data = DOMAIN x.m
                            /\ \A k \in DOMAIN x.m : NilsAreNull(x.m[k], v.data[k])
      [] x.go = "struct" -> /\ v.kind = "struct_value"
                            /\ DOMAIN v.data = DOMAIN x.fields
                            /\ \A k \in DOMAIN x.fields : NilsAreNull(x.fields[k], v.data[k])
      [] x.go = "slice"  -> /\ v.kind = "list_value"
                            /\ Len(v.values) = Len(x.elems)
                            /\ \A i \in DOMAIN x.elems : NilsAreNull(x.elems[i], v.values[i])
      [] OTHER           -> TRUE

RECURSIVE HasUnsupported(_)
\* x is, or holds at some depth, a value of a shape NewValue has no rule for.
HasUnsupported(x) ==
    CASE x.go = "map"    -> \E k \in DOMAIN x.m : HasUnsupported(x.m[k])
      [] x.go = "struct" -> \E k \in DOMAIN x.fields : HasUnsupported(x.fields[k])
      [] x.go = "slice"  -> \E i \in DOMAIN x.elems : HasUnsupported(x.elems[i])
      [] x.go = "ptr"    -> ~x.isnil /\ HasUnsupported(x.elem)
      [] OTHER           -> x.go \notin {"nil", "bool", "string", "bytes", "time"}
                                            \cup IntTypes \cup FloatTypes

\* C9: NewValue(nil) is Null without error, and a nil or nil pointer at any
\* position of a supported input becomes Null instead of failing the call.
C9_NilIsNull ==
    st # "input" =>
        /\ in \in {GoNil, GoNilPtr} => st = "value" /\ val = NullValue
        /\ ~HasUnsupported(in) => st = "value"
        /\ st = "value" => NilsAreNull(in, val)

C9_Witness ==
    /\ st = "value"
    /\ in = GoSlice(<<GoInt("int64", 1), GoNilPtr>>)
    /\ val = NewListValue(<<NewInt64Value(1), NullValue>>)

\* C10: NewValue fails for every input that is or holds, at any depth, a
\* value of an unsupported shape, and then returns no Value.
C10_UnsupportedFails ==
    st # "input" =>
        /\ HasUnsupported(in) => st = "failed" /\ val = UnsetValue
        /\ st = "value" => ~HasUnsupported(in)

C10_Witness ==
    /\ st = "failed"
    /\ in = GoSlice(<<GoMap(KeyA :> GoChan)>>)

-----------------------------------------------------------------------------
(* Error propagation of the serializers.                                   *)

RECURSIVE HasUnset(_)
\* v is, or holds at some depth, a Value whose Kind is not set.
HasUnset(v) ==
    CASE v.kind = "struct_value" -> \E k \in DOMAIN v.data : HasUnset(v.data[k])
      [] v.kind = "list_value"   -> \E i \in DOMAIN v.values : HasUnset(v.values[i])
      [] OTHER                   -> v.kind = "unset"

\* C11: whenever the tree holds a Value without a rendering rule (its Kind
\* is not set), at top level, as a Struct member or as a List element at any
\* depth, both serializers return an error and neither reports success.
C11_UnhandledVariantFails ==
    /\ (ferr # "none" /\ HasUnset(val)) => ferr = "err"
    /\ (jerr # "none" /\ HasUnset(val)) => jerr = "err"

-----------------------------------------------------------------------------
(* Delimiters of the streaming serializer.                                 *)

RECURSIVE JoinComma(_)
\* The texts of `parts` in order, one comma between each two neighbours.
JoinComma(parts) ==
    IF parts = <<>> THEN <<>>
    ELSE IF Len(parts) = 1 THEN parts[1]
    ELSE parts[1] \o <<",">> \o JoinComma(Tail(parts))

RECURSIVE CommasBetween(_, _)
\* Every Struct and List of v that the streaming serializer writes without
\* an error, visiting map keys in `order`, is its opening delimiter, the
\* texts of its members with one comma between each two neighbours, and its
\* closing delimiter.
CommasBetween(v, order) ==
    LET r == ValueMarshalFastJSON(v, order)
    IN  CASE v.kind = "struct_value" /\ ~v.isnil ->
                LET keys == KeysInOrder(v.data, order)
                    member(i) == <<QUOTE>> \o keys[i] \o <<QUOTE, ":">>
                                    \o ValueMarshalFastJSON(v.data[keys[i]], order).out
                IN  /\ ~r.err => r.out = <<"{">> \o JoinComma([i \in 1..Len(keys) |-> member(i)])
                                             \o <<"}">>
                    /\ \A k \in DOMAIN v.data : CommasBetween(v.data[k], order)
          [] v.kind = "list_value" /\ ~v.isnil ->
                LET element(i) == ValueMarshalFastJSON(v.values[i], order).out
                IN  /\ ~r.err => r.out = <<"[">> \o JoinComma([i \in 1..Len(v.values) |-> element(i)])
                                             \o <<"]">>
                    /\ \A i \in DOMAIN v.values : CommasBetween(v.values[i], order)
          [] OTHER -> TRUE

\* The number of commas in a text.
CountCommas(text) == Cardinality({i \in DOMAIN text : text[i] = ","})

RECURSIVE SumOver(_, _)
\* The sum of f over the finite set S.
SumOver(f, S) ==
    IF S = {} THEN 0
    ELSE LET x == CHOOSE y \in S : TRUE IN f[x] + SumOver(f, S \ {x})

RECURSIVE ExpectedCommas(_)
\* max(n - 1, 0) for every Struct of n members and List of n elements of v.
ExpectedCommas(v) ==
    CASE v.kind = "struct_value" ->
            (IF Cardinality(DOMAIN v.data) > 1 THEN Cardinality(DOMAIN v.data) - 1 ELSE 0)
            + SumOver([k \in DOMAIN v.data |-> ExpectedCommas(v.data[k])], DOMAIN v.data)
      [] v.kind = "list_value" ->
            (IF Len(v.values) > 1 THEN Len(v.values) - 1 ELSE 0)
            + SumOver([i \in DOMAIN v.values |-> ExpectedCommas(v.values[i])], DOMAIN v.values)
      [] OTHER -> 0

-----------------------------------------------------------------------------
(* Shape of the converted tree.                                            *)

RECURSIVE Corresponds(_, _)
\* v is the Value of the native x: the variant of x's shape with x's
\* payload, and for a container the same keys or the same length, with
\* corresponding members at each key or index.
Corresponds(x, v) ==
    CASE x.go = "nil"        -> v = NullValue
      [] x.go = "bool"       -> v = NewBoolValue(x.b)
      [] x.go \in IntTypes   ->
            /\ v.kind \in {"int32_value", "int64_value", "uint32_value", "uint64_value"}
            /\ v.n = x.n
      [] x.go \in FloatTypes -> v.kind \in {"float32_value", "float64_value"} /\ v.f = x.f
      [] x.go = "string"     -> v = NewStringValue(x.s)
      [] x.go = "bytes"      -> v.kind = "string_value"
      [] x.go = "time"       ->
            v.kind = "timestamp_value" /\ v.seconds = x.seconds /\ v.nanos = x.nanos
      [] x.go = "ptr"        -> IF x.isnil THEN v = NullValue ELSE Corresponds(x.elem, v)
      [] x.go = "map"        ->
            /\ v.kind = "struct_value" /\ ~v.isnil
            /\ DOMAIN v.data = DOMAIN x.m
            /\ \A k \in DOMAIN x.m : Corresponds(x.m[k], v.data[k])
      [] x.go = "struct"     ->
            /\ v.kind = "struct_value" /\ ~v.isnil
            /\ DOMAIN v.data = DOMAIN x.fields
            /\ \A k \in DOMAIN x.fields : Corresponds(x.fields[k], v.data[k])
      [] x.go = "slice"      ->
            /\ v.kind = "list_value" /\ ~v.isnil
            /\ Len(v.values) = Len(x.elems)
            /\ \A i \in DOMAIN x.elems : Corresponds(x.elems[i], v.values[i])
      [] OTHER               -> FALSE

\* C13: NewValue of a slice is a List of the same length whose i-th element
\* is the Value of the i-th input element, and each serializer that returns
\* no error for it writes the elements in that order: '[', the texts of the
\* elements from the first to the last joined by commas, ']'.
C13_OrderPreserved ==
    (st # "input" /\ in.go = "slice" /\ ~HasUnsupported(in)) =>
        /\ st = "value"
        /\ val.kind = "list_value"
        /\ Len(val.values) = Len(in.elems)
        /\ \A i \in DOMAIN in.elems : Corresponds(in.elems[i], val.values[i])
        /\ ferr # "none" =>
              /\ ferr = "ok"
              /\ \E order \in KeyOrders(KeysOf(val)) :
                    FastOut = <<"[">>
                        \o JoinComma([i \in DOMAIN val.values |->
                                         ValueMarshalFastJSON(val.values[i], order).out])
                        \o <<"]">>
        /\ jerr = "ok" =>
              jout = <<"[">>
                  \o JoinComma([i \in DOMAIN val.values |-> ValueMarshalJSON(val.values[i]).out])
                  \o <<"]">>

C13_Witness ==
    /\ in = GoSlice(<<GoString(<<"v", "1">>), GoString(<<"v", "2">>)>>)
    /\ val = NewListValue(<<NewStringValue(<<"v", "1">>), NewStringValue(<<"v", "2">>)>>)
    /\ ferr = "ok"
    /\ FastOut = <<"[", QUOTE, "v", "1", QUOTE, ",", QUOTE, "v", "2", QUOTE, "]">>
    /\ jerr = "ok"
    /\ jout = FastOut

\* C14: NewValue of a string-keyed map is a Struct whose key set is exactly
\* the key set of the map, each key copied as it is, and whose value at
\* each key is the Value of the map's value at that key, nested maps
\* included.
C14_MapBecomesStruct ==
    (st # "input" /\ in.go = "map" /\ ~HasUnsupported(in)) =>
        /\ st = "value"
        /\ val.kind = "struct_value"
        /\ ~val.isnil
        /\ DOMAIN val.data = DOMAIN in.m
        /\ \A k \in DOMAIN in.m : Corresponds(in.m[k], val.data[k])

C14_Witness ==
    /\ st = "value"
    /\ in = GoMap((KeyQuote :> GoMap(KeyA :> GoBool(FALSE))) @@ (KeyA :> GoNil))
    /\ val = NewStructValue((KeyQuote :> NewStructValue(KeyA :> NewBoolValue(FALSE)))
                            @@ (KeyA :> NullValue))

\* C15: NewValue of a struct value is a Struct with exactly one entry for
\* each exported field, under the field's name, holding the Value of the
\* field's value; a field other packages cannot read gets no entry.
C15_RecordBecomesStruct ==
    (st # "input" /\ in.go = "struct" /\ ~HasUnsupported(in)) =>
        /\ st = "value"
        /\ val.kind = "struct_value"
        /\ ~val.isnil
        /\ DOMAIN val.data = DOMAIN in.fields
        /\ DOMAIN val.data \cap in.unexported = {}
        /\ \A k \in DOMAIN in.fields : Corresponds(in.fields[k], val.data[k])

C15_Witness ==
    /\ st = "value"
    /\ in = GoStruct((FieldA :> GoInt("int", 32)) @@ (FieldB :> GoInt("int64", 1)))
    /\ val = NewStructValue((FieldA :> NewInt64Value(32)) @@ (FieldB :> NewInt64Value(1)))

-----------------------------------------------------------------------------
(* 64-bit numbers above 2^53.                                              *)

RECURSIVE LimbsOfDigits(_)
\* The limbs of a run of decimal digits, nine digits to a limb from the right.
LimbsOfDigits(d) ==
    IF Len(d) <= 9 THEN <<ScanDigits(d, 1, 0, 0).n>>
    ELSE LimbsOfDigits(SubSeq(d, 1, Len(d) - 9))
            \o <<ScanDigits(SubSeq(d, Len(d) - 8, Len(d)), 1, 0, 0).n>>

\* text is the exact decimal form of the number r holds: an optional minus
\* sign, then digits without a leading zero that stand for r's magnitude.
ExactDigits(text, r) ==
    LET d == IF r.neg THEN Tail(text) ELSE text
    IN  /\ text # <<>>
        /\ r.neg => Head(text) = "-"
        /\ d # <<>>
        /\ \A i \in DOMAIN d : IsDigit(d[i])
        /\ Head(d) # "0"
        /\ LimbsOfDigits(d) = r.limbs

DigitsOfUint64Max ==
    <<"1", "8", "4", "4", "6", "7", "4", "4", "0", "7",
      "3", "7", "0", "9", "5", "5", "1", "6", "1", "5">>

\* The streaming serializer writes a wide scalar as its exact digits.
WideStreamingExact ==
    (st = "value" /\ IsWide(in)) =>
        /\ val.kind = (IF in.go \in {"uint", "uint64"} THEN "uint64_value" ELSE "int64_value")
        /\ val.neg = in.neg /\ val.limbs = in.limbs
        /\ ferr # "none" => ferr = "ok" /\ ExactDigits(FastOut, in)
        /\ (ferr # "none" /\ in = Uint64Max) => FastOut = DigitsOfUint64Max

\* C16: NewValue of a 64-bit number above 2^53 is the Uint64 or Int64
\* variant holding that number, and serializing it gives exactly its decimal
\* digits, 18446744073709551615 for the largest uint64, with either
\* serializer.
C16_WideNumbersExact ==
    /\ WideStreamingExact
    /\ (st = "value" /\ IsWide(in) /\ jerr # "none") => jerr = "ok" /\ ExactDigits(jout, in)

-----------------------------------------------------------------------------
(* time.Parse(time.RFC3339Nano, text), for the texts of UTC instants.      *)

\* The day count since 1970-01-01 of a civil date.
DaysFromCivil(year, month, day) ==
    LET y   == IF month <= 2 THEN year - 1 ELSE year
        era == y \div 400
        yoe == y - era * 400
        mp  == IF month > 2 THEN month - 3 ELSE month + 9
        doy == (153 * mp + 2) \div 5 + day - 1
        doe == yoe * 365 + yoe \div 4 - yoe \div 100 + doy
    IN  era * 146097 + doe - 719468

\* The number the n digits at text[i..] stand for; -1 when they are not n digits.
FixedDigits(text, i, n) ==
    IF i + n - 1 <= Len(text) /\ \A j \in i..(i + n - 1) : IsDigit(text[j])
    THEN ScanDigits(SubSeq(text, i, i + n - 1), 1, 0, 0).n
    ELSE -1

TimeParseFail == [ok |-> FALSE, seconds |-> 0, nanos |-> 0]

\* "2006-01-02T15:04:05.999999999Z": the instant the text names.
ParseRFC3339Nano(text) ==
    LET year   == FixedDigits(text, 1, 4)
        month  == FixedDigits(text, 6, 2)
        day    == FixedDigits(text, 9, 2)
        hour   == FixedDigits(text, 12, 2)
        minute == FixedDigits(text, 15, 2)
        second == FixedDigits(text, 18, 2)
        frac   == IF Len(text) >= 20 /\ text[20] = "."
                  THEN ScanDigits(text, 21, 0, 0)
                  ELSE [n |-> 0, cnt |-> 0, i |-> 20]
        punct  == /\ Len(text) >= 20
                  /\ text[5] = "-" /\ text[8] = "-" /\ text[11] = "T"
                  /\ text[14] = ":" /\ text[17] = ":"
        fields == /\ year >= 0 /\ month \in 1..12 /\ day \in 1..31
                  /\ hour \in 0..23 /\ minute \in 0..59 /\ second \in 0..59
        tail   == /\ frac.i = Len(text) /\ text[frac.i] = "Z"
                  /\ (text[20] = "." => frac.cnt \in 1..9)
    IN  IF punct /\ fields /\ tail
        THEN [ok      |-> TRUE,
              seconds |-> DaysFromCivil(year, month, day) * 86400
                              + hour * 3600 + minute * 60 + second,
              nanos   |-> frac.n * Pow10(9 - frac.cnt)]
        ELSE TimeParseFail

\* text is the JSON string of the instant ts: quoted, RFC3339, a fraction
\* exactly when nanos # 0 and then without trailing zeros, and it parses
\* back to (seconds, nanos).
IsTimestampText(text, ts) ==
    LET body == SubSeq(text, 2, Len(text) - 1)
        p    == ParseRFC3339Nano(body)
    IN  /\ Len(text) >= 22
        /\ text[1] = QUOTE /\ text[Len(text)] = QUOTE
        /\ Unmarshal(text) = ParseOk(JStr(body), Len(text) + 1)
        /\ p.ok /\ p.seconds = ts.seconds /\ p.nanos = ts.nanos
        /\ (\E i \in DOMAIN body : body[i] = ".") <=> ts.nanos # 0
        /\ ts.nanos # 0 => body[Len(body) - 1] # "0"

\* C17: both serializers write a Timestamp as a quoted JSON string in
\* RFC3339 form, with a fraction exactly when nanos is not zero and without
\* trailing zeros in it, and the string parses back to the same seconds and
\* nanos, for nanos = 0 and nanos = 123456789 alike.
C17_TimestampText ==
    val.kind = "timestamp_value" =>
        /\ ferr # "none" => ferr = "ok" /\ IsTimestampText(FastOut, val)
        /\ jerr # "none" => jerr = "ok" /\ IsTimestampText(jout, val)

C17_Witness ==
    /\ val = NewTimestampValue([seconds |-> 1667606400, nanos |-> 123456789])
    /\ ferr = "ok"
    /\ jerr = "ok"
    /\ jout = FastOut
    /\ Len(FastOut) = 32

-----------------------------------------------------------------------------
(* Instants.                                                               *)

\* a and b name the same instant (time.Time.Equal), whatever their locations.
SameInstant(a, b) == a.seconds = b.seconds /\ a.nanos = b.nanos

\* v is the Timestamp of the native time x.
IsTimestampOf(v, x) ==
    /\ v.kind = "timestamp_value"
    /\ v.nanos >= 0 /\ v.nanos < 1000000000
    /\ SameInstant(v, x)

\* C18: NewValue of a time is Timestamp(seconds, nanos) with
\* 0 <= nanos < 10^9 naming the same instant, at top level and as a map
\* value, and AsInterface of that Timestamp is a time naming that instant.
C18_InstantKept ==
    /\ (st # "input" /\ in.go = "time") =>
          /\ st = "value"
          /\ IsTimestampOf(val, in)
          /\ nst = "done" => native.go = "time" /\ SameInstant(native, in)
    /\ (st = "value" /\ in.go = "map") =>
          \A k \in DOMAIN in.m :
              in.m[k].go = "time" =>
                  /\ IsTimestampOf(val.data[k], in.m[k])
                  /\ nst = "done" =>
                        native.m[k].go = "time" /\ SameInstant(native.m[k], in.m[k])

C18_Witness ==
    /\ nst = "done"
    /\ in = GoMap(KeyA :> GoTimeIn([seconds |-> 1667606400, nanos |-> 123456789], 3600))
    /\ val = NewStructValue(KeyA :> NewTimestampValue([seconds |-> 1667606400, nanos |-> 123456789]))
    /\ SameInstant(native.m[KeyA], in.m[KeyA])

-----------------------------------------------------------------------------
(* Shape of the native value that comes back.                              *)

RECURSIVE IsNativeOf(_, _)
\* x is the native counterpart of the Value v: a map with the keys of a
\* Struct, a slice with the length and order of a List, the scalar of a
\* scalar variant, and some native value for a Value whose Kind is not set.
IsNativeOf(x, v) ==
    CASE v.kind = "struct_value"    ->
            /\ x.go = "map"
            /\ DOMAIN x.m = DOMAIN v.data
            /\ \A k \in DOMAIN v.data : IsNativeOf(x.m[k], v.data[k])
      [] v.kind = "list_value"      ->
            /\ x.go = "slice"
            /\ Len(x.elems) = Len(v.values)
            /\ \A i \in DOMAIN v.values : IsNativeOf(x.elems[i], v.values[i])
      [] v.kind = "null_value"      -> x = GoNil
      [] v.kind = "bool_value"      -> x = GoBool(v.b)
      [] v.kind = "string_value"    -> x = GoString(v.s)
      [] v.kind = "int32_value"     -> x = GoInt("int32", v.n)
      [] v.kind = "int64_value"     -> x = GoInt("int64", v.n)
      [] v.kind = "uint32_value"    -> x = GoInt("uint32", v.n)
      [] v.kind = "uint64_value"    -> x = GoInt("uint64", v.n)
      [] v.kind = "float32_value"   -> x = GoFloat("float32", v.f)
      [] v.kind = "float64_value"   -> x = GoFloat("float64", v.f)
      [] v.kind = "timestamp_value" -> x.go = "time" /\ SameInstant(x, v)
      [] OTHER                      -> x # NoNative

\* C19: AsInterface returns a native value for every Value tree, whatever
\* variants it holds at whatever depth, a Value without a Kind included: a
\* Struct comes back as a map with the same key set, a List as a slice of
\* the same length and order, a scalar as the scalar of its variant.
C19_AsInterfaceTotal ==
    /\ st = "value" => AsInterface(val) # NoNative
    /\ nst = "done" => native # NoNative /\ IsNativeOf(native, val)

C19_Witness ==
    /\ nst = "done"
    /\ val = NewListValue(<<NewInt64Value(1),
                            NewStructValue((KeyQuote :> UnsetValue) @@ (KeyA :> NullValue))>>)
    /\ native = GoSlice(<<GoInt("int64", 1), GoMap((KeyQuote :> GoNil) @@ (KeyA :> GoNil))>>)

-----------------------------------------------------------------------------
(* Completeness of the values the streaming serializer writes.             *)

RECURSIVE Nodes(_)
\* v and every Value below it.
Nodes(v) ==
    {v} \cup
    CASE v.kind = "struct_value" -> UNION {Nodes(v.data[k]) : k \in DOMAIN v.data}
      [] v.kind = "list_value"   -> UNION {Nodes(v.values[i]) : i \in DOMAIN v.values}
      [] OTHER                   -> {}

\* text is at least two bytes, the first `open` and the last `close`.
Enclosed(text, open, close) ==
    Len(text) >= 2 /\ text[1] = open /\ text[Len(text)] = close

\* What the streaming serializer writes for the node v, visiting map keys
\* in `order`, is a complete value: a Struct in braces, a List in brackets,
\* and a value after the key of every member.
CompleteValue(v, order) ==
    LET out == ValueMarshalFastJSON(v, order).out
    IN  CASE v.kind = "struct_value" ->
                /\ Enclosed(out, "{", "}")
                /\ \A k \in DOMAIN v.data : ValueMarshalFastJSON(v.data[k], order).out # <<>>
          [] v.kind = "list_value" -> Enclosed(out, "[", "]")
          [] OTHER -> TRUE

\* C26: after a successful call of the streaming serializer every Struct of
\* the tree was written as '{' ... '}' and every List as '[' ... ']', a nil
\* or empty map or slice included, and every member key is followed by a
\* value.
C26_CompleteValues ==
    ferr = "ok" =>
        \A order \in KeyOrders(KeysOf(val)) :
            FastOut = ValueMarshalFastJSON(val, order).out
                => \A v \in Nodes(val) : CompleteValue(v, order)

-----------------------------------------------------------------------------
(* Nesting of the delimiters the streaming serializer writes.              *)

\* The larger of two numbers.
Max(a, b) == IF a >= b THEN a ELSE b

\* The largest member of a finite set of naturals, 0 for the empty set.
MaxOf(S) == IF S = {} THEN 0 ELSE CHOOSE m \in S : \A x \in S : x <= m

RECURSIVE NestingDepth(_)
\* The number of Structs and Lists on the longest path from v to a leaf.
NestingDepth(v) ==
    CASE v.kind = "struct_value" ->
            1 + MaxOf({NestingDepth(v.data[k]) : k \in DOMAIN v.data})
      [] v.kind = "list_value" ->
            1 + MaxOf({NestingDepth(v.values[i]) : i \in DOMAIN v.values})
      [] OTHER -> 0

\* The closing delimiter that matches an opening one.
CloserOf(c) == IF c = "{" THEN "}" ELSE "]"

RECURSIVE ScanDelimiters(_, _, _, _, _)
\* A pass over text from position i on: `open` is the stack of delimiters
\* not yet closed, `instr` says that i lies inside a string literal, and
\* `deepest` is the largest height `open` has had.  The result says whether
\* every closer met the opener it matches and nothing stayed open.
ScanDelimiters(text, i, open, instr, deepest) ==
    IF i > Len(text) THEN [ok |-> open = <<>> /\ ~instr, deepest |-> deepest]
    ELSE LET c == text[i]
         IN  IF instr THEN
                 IF c = BSLASH THEN ScanDelimiters(text, i + 2, open, TRUE, deepest)
                 ELSE ScanDelimiters(text, i + 1, open, c # QUOTE, deepest)
             ELSE IF c = QUOTE THEN ScanDelimiters(text, i + 1, open, TRUE, deepest)
             ELSE IF c \in {"{", "["} THEN
                 ScanDelimiters(text, i + 1, open \o <<c>>, FALSE,
                                Max(deepest, Len(open) + 1))
             ELSE IF c \in {"}", "]"} THEN
                 IF open # <<>> /\ CloserOf(open[Len(open)]) = c
                 THEN ScanDelimiters(text, i + 1, SubSeq(open, 1, Len(open) - 1), FALSE, deepest)
                 ELSE [ok |-> FALSE, deepest |-> deepest]
             ELSE ScanDelimiters(text, i + 1, open, FALSE, deepest)

\* C27: after a successful call of the streaming serializer the delimiters
\* written outside string literals are balanced and properly nested, no
\* prefix closes more than it opened, and the deepest nesting of open
\* delimiters equals the nesting depth of the Value tree.
C27_DelimitersBalanced ==
    ferr = "ok" =>
        LET s == ScanDelimiters(FastOut, 1, <<>>, FALSE, 0)
        IN  s.ok /\ s.deepest = NestingDepth(val)

-----------------------------------------------------------------------------
(* Widening of the 32-bit integers by the streaming serializer.            *)

RECURSIVE HeldAs64(_)
\* The tree v with every Int32 replaced by the Int64, and every Uint32 by
\* the Uint64, of the same number.
HeldAs64(v) ==
    CASE v.kind = "int32_value" ->
            IF v.n = Int32Min
            THEN IntegerValue("int64_value", GoWide("int64", TRUE, <<2, 147483648>>))
            ELSE NewInt64Value(v.n)
      [] v.kind = "uint32_value" ->
            IF IsWide(v) THEN [kind |-> "uint64_value", neg |-> v.neg, limbs |-> v.limbs]
            ELSE NewUint64Value(v.n)
      [] v.kind = "struct_value" /\ ~v.isnil ->
            NewStructValue([k \in DOMAIN v.data |-> HeldAs64(v.data[k])])
      [] v.kind = "list_value" /\ ~v.isnil ->
            NewListValue([i \in DOMAIN v.values |-> HeldAs64(v.values[i])])
      [] OTHER -> v

\* C29: the bytes the streaming serializer writes for a tree of Int32 and
\* Uint32 values, the ends of both ranges included, are the bytes it writes
\* for the same numbers held as Int64 and Uint64.
C29_WideningPreserves ==
    ferr = "ok" =>
        \A order \in KeyOrders(KeysOf(val)) :
            FastOut = ValueMarshalFastJSON(HeldAs64(val), order).out

C29_Witness ==
    /\ ferr = "ok"
    /\ val = NewListValue(<<NewInt32Value(Int32Min), Uint32Max>>)
    /\ FastOut = <<"[", "-", "2", "1", "4", "7", "4", "8", "3", "6", "4", "8", ",",
                   "4", "2", "9", "4", "9", "6", "7", "2", "9", "5", "]">>

-----------------------------------------------------------------------------
(* Concurrent calls of the streaming serializer.                           *)

\* The goroutine t has returned from its call.
Done(t) == thr[t].state = "done"

\* The bytes the call of goroutine t has added to its Writer.
Written(t) == SubSeq(bufs[t], Len(thr[t].before) + 1, Len(bufs[t]))

\* What a call of root.MarshalFastJSON alone, with nothing running beside
\* it, writes and returns for goroutine t.
Sequential(t) == ValueMarshalFastJSON(thr[t].root, thr[t].order)

\* C22: under every interleaving of the steps of two streaming-serializer
\* calls, each on a Writer of its own, on two trees or on the same tree, a
\* call that has returned has left in its Writer the bytes that were there
\* before, followed by exactly the bytes a sequential call writes, and has
\* returned the error a sequential call returns.
C22_NoInterference ==
    \A t \in DOMAIN thr :
        Done(t) => /\ bufs[t] = thr[t].before \o Sequential(t).out
                   /\ thr[t].err = Sequential(t).err

C22_Witness ==
    /\ thr # <<>>
    /\ Done(1)
    /\ thr[2].state = "running" /\ Len(thr[2].stack) = 5
    /\ thr[1].root = thr[2].root
    /\ thr[1].order # thr[2].order
    /\ thr[1].root.kind = "list_value"
    /\ Written(1) = <<"[", ",", "{", QUOTE, "a", QUOTE, "b", QUOTE, ":", "[", "t", "r", "u", "e", "]",
                      ",", QUOTE, "a", QUOTE, ":", ",", "1", "]">>

-----------------------------------------------------------------------------
(* The streaming serializer and the bytes already in the Writer.           *)

\* a is a prefix of b.
IsPrefix(a, b) == Len(a) <= Len(b) /\ SubSeq(b, 1, Len(a)) = a

\* No step takes a byte away from a Writer or changes one.
AppendOnly == \A b \in DOMAIN bufs : IsPrefix(bufs[b], bufs'[b])

\* The call of goroutine t on a Struct has returned an error: what it wrote
\* is '{', the members before the failing one in full with commas between
\* them, the key of the failing one, and no '}' at the end.
FailureShape(t) ==
    LET root   == thr[t].root
        keys   == KeysInOrder(root.data, thr[t].order)
        text(i) == ValueMarshalFastJSON(root.data[keys[i]], thr[t].order)
        failing == CHOOSE i \in DOMAIN keys :
                       text(i).err /\ \A j \in 1..(i - 1) : ~text(j).err
        member(i) == <<QUOTE>> \o keys[i] \o <<QUOTE, ":">> \o text(i).out
        earlier == JoinComma([i \in 1..(failing - 1) |-> member(i)])
        sep    == IF failing > 1 THEN <<",">> ELSE <<>>
    IN  (Done(t) /\ thr[t].err /\ root.kind = "struct_value") =>
            /\ IsPrefix(<<"{">> \o earlier \o sep \o <<QUOTE>> \o keys[failing] \o <<QUOTE, ":">>,
                        Written(t))
            /\ Written(t)[Len(Written(t))] # "}"

\* C28: every step of a streaming-serializer call leaves the bytes its
\* Writer already held as a prefix of what it holds afterwards, whether the
\* call succeeds or fails; a Struct that fails has left the bytes of its
\* earlier members in place and has written no closing brace.
C28_AppendOnly ==
    /\ [][AppendOnly]_vars
    /\ [](\A t \in DOMAIN thr : IsPrefix(thr[t].before, bufs[t]) /\ FailureShape(t))

C28_Witness ==
    /\ thr # <<>>
    /\ Done(1) /\ thr[1].err
    /\ thr[1].before = <<"[">>
    /\ bufs[1] = <<"[", "{", QUOTE, BSLASH, CTRL, QUOTE, ":", "{", QUOTE, "a", QUOTE, ":",
                   "n", "u", "l", "l", "}", ",", QUOTE, "a", QUOTE, ":">>

-----------------------------------------------------------------------------
(* Termination and depth of the recursion.                                 *)

\* Some Struct of the tree v returns an error when its members are visited
\* in `order`.
StructFails(v, order) ==
    \E n \in Nodes(v) : n.kind = "struct_value" /\ ValueMarshalFastJSON(n, order).err

\* Every goroutine has returned from its call.
AllDone == thr # <<>> /\ \A t \in DOMAIN thr : Done(t)

-----------------------------------------------------------------------------
(* The serializers and their input.                                        *)

\* No step of a serializer changes the tree it was handed.
InputKept == val' = val /\ \A t \in DOMAIN thr : thr'[t].root = thr[t].root

\* Two calls on the same tree that have both returned have returned the
\* same error or none and, when none, have written documents of the same
\* length that parse to the same JSON value, whatever order the maps were
\* visited in.
SameResults ==
    (AllDone /\ thr[1].root = thr[2].root) =>
        /\ thr[1].err = thr[2].err
        /\ ~thr[1].err => /\ Len(Written(1)) = Len(Written(2))
                          /\ Unmarshal(Written(1)) = Unmarshal(Written(2))

\* C21: no step of the streaming serializer and no call of the tree
\* serializer, successful or failing, changes the Value tree it serializes,
\* and two serializations of one tree give parse-equal results.
C21_InputUnchanged ==
    /\ [][InputKept]_vars
    /\ []SameResults

====
